---- MODULE Spec2Model ----
(***************************************************************************)
(* Model of scripts/download-parcels.js: the parcel ingestion pipeline.    *)
(*                                                                         *)
(* The script is one Node.js process.  Code runs to completion between     *)
(* awaits, so every action below is one event of the event loop (an HTTP   *)
(* response, a store acknowledgement, a timer) followed by everything the  *)
(* resumed code does until each coroutine is suspended at an await again.  *)
(* Two coroutines exist: main() (with runPipeline inlined in it) and the   *)
(* upsertRows call that runPipeline fires in the background.               *)
(***************************************************************************)
EXTENDS Integers, Naturals, Sequences, FiniteSets, TLC

\* ---------------------------------------------------------------- constants

\* Identifier space and batch sizes, scaled down from the script's values
\* (102079250, 102241235, 2500, 500) so that several ranges and several
\* sub-batches per range occur.
DEFAULT_MIN_ID == 0
MAX_ID == 6
RANGE_STEP == 2
UPSERT_BATCH == 1

MAX_RETRIES == 5
UPSERT_RETRIES == 3

\* Inputs of the planner check: identifiers 0..PlanMaxId, steps 1..PlanMaxStep.
PlanMaxId == 7
PlanMaxStep == 4

\* Bounds of the upsertRows runs: rows of one call, sub-batch size.
MaxRows == 5
MaxBatch == 3

\* Bounds of the store runs: identifiers written, clock values.
MaxStoreIds == 2
MaxClock == 2

\* Bounds of the transformFeature runs: coordinate values, points of a ring.
MaxCoord == 1
MaxRing == 3
SHORT_EXPIRES_IN == 300
TOKEN_BUFFER_MS == 300000
DEFAULT_EXPIRES_IN == 3600

Min(a, b) == IF a < b THEN a ELSE b

\* ---------------------------------------------------------------- state

VARIABLES
    minId,          \* START_ID: process.argv[2] or DEFAULT_MIN_ID
    maxId,          \* MAX_ID as seen by the planner loop
    step,           \* RANGE_STEP as seen by the planner loop
    start,          \* loop variable of the planner loop in main
    chunks,         \* main: chunks, sequence of [start, end]
    upstream,       \* the OBJECTIDs the ArcGIS layer holds
    bad,            \* scenario: start of the range the upstream always fails, or -1
    creds,          \* SUPABASE_URL and SUPABASE_SERVICE_KEY are both set
    batchSize,      \* UPSERT_BATCH as seen by upsertRows
    now,            \* the store's clock, NOW()
    lastBatch,      \* the batch of the last upsert request, and how often in a row
    feat,           \* transformFeature: the argument
    row,            \* transformFeature: the value returned, once it has returned
    runs,           \* concurrent runs: what each has still to write to the store
    DOCUSIGN_CONFIG,    \* the server's DOCUSIGN_CONFIG, where its private key is, and its cwd
    SUPABASE_HEADERS,   \* the server's SUPABASE_HEADERS is not null
    cachedToken,
    tokenExpiresAt,
    clock,          \* the server's Date.now()
    reqs,           \* the create-envelope requests in flight
    res,            \* what the request answered last was answered with
    pc,             \* where main is suspended
    i,              \* runPipeline: loop index (1-based)
    k,              \* main: position in failedChunks in the retry loop (1-based)
    failedChunks,   \* runPipeline/main: failedChunks
    stillFailed,    \* main: stillFailed
    totalFetched,
    totalUpserted,
    pendingUpsert,  \* 0 for null, else the index in tasks of the awaited promise
    data,           \* runPipeline: the fetched body held across the await of pendingUpsert
    fetches,        \* every fetchRange call made so far, in call order
    fres,           \* the locals of the fetchRange call that completed last
    tasks,          \* every upsertRows call made so far, in call order
    store           \* noleadnola_parcels: the rows, at most one per id

planVars == <<minId, maxId, step, start, chunks>>
srvVars == <<DOCUSIGN_CONFIG, SUPABASE_HEADERS, cachedToken, tokenExpiresAt, clock,
             reqs, res>>
unitVars == <<lastBatch, feat, row, runs, srvVars>>
envVars == <<upstream, bad, creds, batchSize, now, unitVars>>
mainVars == <<i, k, failedChunks, stillFailed, totalFetched, totalUpserted,
              pendingUpsert, data, fetches, fres, tasks, store>>
vars == <<planVars, envVars, pc, mainVars>>

\* The coroutines' state as one record, so that the code resumed by an event
\* can be composed from the operators below and committed at once.
Cur ==
    [pc |-> pc, i |-> i, k |-> k, failed |-> failedChunks, still |-> stillFailed,
     tF |-> totalFetched, tU |-> totalUpserted, pu |-> pendingUpsert,
     data |-> data, fetches |-> fetches, fres |-> fres, tasks |-> tasks,
     store |-> store]

Commit(S) ==
    \E T \in {S} :
        /\ pc' = T.pc
        /\ i' = T.i
        /\ k' = T.k
        /\ failedChunks' = T.failed
        /\ stillFailed' = T.still
        /\ totalFetched' = T.tF
        /\ totalUpserted' = T.tU
        /\ pendingUpsert' = T.pu
        /\ data' = T.data
        /\ fetches' = T.fetches
        /\ fres' = T.fres
        /\ tasks' = T.tasks
        /\ store' = T.store

\* ---------------------------------------------------------------- values

\* A JavaScript value that may be null or undefined: None, or Some(v).
None == <<>>
Some(v) == <<v>>

\* x || null for a text attribute: null, undefined and "" give null.
OrNullText(x) == IF x = None \/ x = Some("") THEN None ELSE x

\* x || null for a numeric attribute: null, undefined and 0 give null.
OrNullNum(x) == IF x = None \/ x = Some(0) THEN None ELSE x

\* x != null ? String(x) : null for a numeric attribute.
StringOrNull(x) == IF x = None THEN None ELSE Some(ToString(x[1]))

\* The quotient n / d of two numbers, kept exact.
Quot(n, d) == [num |-> n, den |-> d]

\* ---------------------------------------------------------------- upstream

\* The attributes of a feature: the address, the year built and the lot
\* area as given, the other text and numeric attributes present.
Attributes(id, address, year, sqft) ==
    [OBJECTID |-> id, SITEADDRESS |-> address, OWNERNME1 |-> Some("O1"),
     OWNERNME2 |-> None, PARCELID |-> Some("P"), CLASSDSCRP |-> Some("C"),
     PRPRTYDSCRP |-> Some("D"), RESYRBLT |-> year, RESFLRAREA |-> Some(1),
     ASS_SQFT |-> sqft, ASS_DIMS |-> Some("1x1"), LNDVALUE |-> Some(1),
     CNTASSDVAL |-> Some(1), CNTTXBLVAL |-> Some(1), TAXBILLID |-> Some("T"),
     BLOCK |-> Some("B"), LOT |-> Some("L")]

\* A polygon geometry with the given rings.
Polygon(rings) == Some([rings |-> Some(rings)])

\* The feature the layer holds under an identifier.
FeatureOf(id) ==
    [attributes |-> Attributes(id, Some("A"), Some(1), Some(1)),
     geometry |-> Polygon(<<<<<<0, 0>>, <<1, 0>>, <<1, 1>>>>>>)]

\* The features the layer returns for "OBJECTID >= lo AND OBJECTID < hi",
\* in identifier order.
RECURSIVE FeaturesIn(_, _)
FeaturesIn(lo, hi) ==
    IF lo >= hi THEN <<>>
    ELSE (IF lo \in upstream THEN <<FeatureOf(lo)>> ELSE <<>>)
         \o FeaturesIn(lo + 1, hi)

NoData == [kind |-> "none", features |-> <<>>]
\* A body with an error object; it may carry a feature list as well, which
\* fetchRange never looks at.
ErrorBody(c) == [kind |-> "error", features |-> FeaturesIn(c.start, c.end)]
FeatureBody(c) == [kind |-> "features", features |-> FeaturesIn(c.start, c.end)]
\* A body with neither an error object nor a features member.
AbsentBody == [kind |-> "absent", features |-> <<>>]

\* !data.features || data.features.length === 0
NoFeatures(body) == body.kind = "absent" \/ Len(body.features) = 0

\* The ways one HTTP attempt fails while "await fetch(url, {signal})" is
\* pending: abort by the FETCH_TIMEOUT timer, a transport error, or headers
\* whose status is not ok, on which the code throws without reading a body.
HeaderFailKinds == {"timeout", "status", "transport"}

\* The way an attempt fails while "await resp.json()" is pending: the body
\* cannot be read or is not JSON.  The abort timer has been cleared by then.
BodyFailKinds == {"decode"}

FailKinds == HeaderFailKinds \cup BodyFailKinds

\* ---------------------------------------------------------------- transform

\* ring.reduce((s, pt) => s + pt[c], 0) over the first n points.
RECURSIVE Reduce(_, _, _)
Reduce(ring, c, n) == IF n = 0 THEN 0 ELSE Reduce(ring, c, n - 1) + ring[n][c]

\* Mutant of HasRing: the length of the first ring is not tested.
HasRing_NoLengthTest(f) ==
    /\ f.geometry # None
    /\ f.geometry[1].rings # None
    /\ Len(f.geometry[1].rings[1]) > 0

\* feature.geometry && feature.geometry.rings && rings.length > 0, and the
\* first ring has a point.
HasRing(f) ==
    /\ f.geometry # None
    /\ f.geometry[1].rings # None
    /\ Len(f.geometry[1].rings[1]) > 0
    /\ Len(f.geometry[1].rings[1][1]) > 0

\* feature.geometry.rings[0]
FirstRing(f) == f.geometry[1].rings[1][1]

\* Mutant of PolygonCoords: the pairs are not swapped.
PolygonCoords_NoSwap(ring) == [n \in 1..Len(ring) |-> <<ring[n][1], ring[n][2]>>]

\* ring.map(pt => [pt[1], pt[0]])
PolygonCoords(ring) == [n \in 1..Len(ring) |-> <<ring[n][2], ring[n][1]>>]

\* sum / ring.length for component c of the points.
Centroid(ring, c) == Quot(Reduce(ring, c, Len(ring)), Len(ring))

\* transformFeature(feature): the row of a feature. The centroid is the sum
\* of the first ring's components over its length; polygon_coords is the
\* first ring with every pair swapped.
transformFeature(f) ==
    LET a == f.attributes
        ring == FirstRing(f)
    IN  [id |-> a.OBJECTID,
         site_address |-> OrNullText(a.SITEADDRESS),
         owner_name1 |-> OrNullText(a.OWNERNME1),
         owner_name2 |-> OrNullText(a.OWNERNME2),
         parcel_id |-> OrNullText(a.PARCELID),
         property_type |-> OrNullText(a.CLASSDSCRP),
         property_desc |-> OrNullText(a.PRPRTYDSCRP),
         year_built |-> OrNullNum(a.RESYRBLT),
         living_area |-> OrNullNum(a.RESFLRAREA),
         lot_sqft |-> StringOrNull(a.ASS_SQFT),
         lot_dims |-> OrNullText(a.ASS_DIMS),
         land_value |-> OrNullNum(a.LNDVALUE),
         assessed_value |-> OrNullNum(a.CNTASSDVAL),
         taxable_value |-> OrNullNum(a.CNTTXBLVAL),
         tax_bill_id |-> OrNullText(a.TAXBILLID),
         block |-> OrNullText(a.BLOCK),
         lot |-> OrNullText(a.LOT),
         centroid_lat |-> IF HasRing(f) THEN Some(Centroid(ring, 2)) ELSE None,
         centroid_lng |-> IF HasRing(f) THEN Some(Centroid(ring, 1)) ELSE None,
         polygon_coords |-> IF HasRing(f) THEN Some(PolygonCoords(ring)) ELSE None]

MapTransform(fs) == [n \in 1..Len(fs) |-> transformFeature(fs[n])]

\* The features transformFeature is run on: the attributes null, falsy or
\* present; no geometry, a geometry without rings, with no ring, with one
\* ring of up to MaxRing points (none included), or with a second ring.
Points == (0..MaxCoord) \X (0..MaxCoord)
Rings == UNION {[1..n -> Points] : n \in 0..MaxRing}
Geometries ==
    {None, Some([rings |-> None]), Polygon(<<>>)}
        \cup {Polygon(<<r>>) : r \in Rings}
        \cup {Polygon(<<r, <<<<1, 0>>>>>>) : r \in Rings}
AttributeCases ==
    {Attributes(7, None, None, None),
     Attributes(7, Some(""), Some(0), Some(0)),
     Attributes(7, Some("A"), Some(1936), Some(500))}
TransformInputs ==
    {[attributes |-> a, geometry |-> g] : a \in AttributeCases, g \in Geometries}

\* ---------------------------------------------------------------- store

\* The features whose rows the store runs write: every identifier with an
\* address that is null or one of two texts, without geometry.
StoreFeatures ==
    {[attributes |-> Attributes(id, ad, Some(1), Some(1)), geometry |-> None] :
        id \in 0..(MaxStoreIds - 1), ad \in {None, Some("A"), Some("B")}}

\* The batches of the store runs: the rows of one feature or of two with
\* different identifiers, as upsertRows receives them.
StoreBatches ==
    {<<transformFeature(f)>> : f \in StoreFeatures}
        \cup {<<transformFeature(fg[1]), transformFeature(fg[2])>> :
                fg \in {p \in StoreFeatures \X StoreFeatures :
                            p[1].attributes.OBJECTID < p[2].attributes.OBJECTID}}

RowIds(rows) == {rows[n].id : n \in 1..Len(rows)}

\* The columns of noleadnola_parcels that the rows of transformFeature carry.
DataColumns ==
    {"id", "site_address", "owner_name1", "owner_name2", "parcel_id",
     "property_type", "property_desc", "year_built", "living_area", "lot_sqft",
     "lot_dims", "land_value", "assessed_value", "taxable_value", "tax_bill_id",
     "block", "lot", "centroid_lat", "centroid_lng", "polygon_coords"}

\* A row of the table: the data columns and last_updated.
StoredRow(r, t) ==
    [c \in DataColumns \cup {"last_updated"} |->
        IF c = "last_updated" THEN t ELSE r[c]]

\* The data columns of a stored row.
DataOf(r) == [c \in DataColumns |-> r[c]]

\* Mutant of StoreUpsert: a null in the payload keeps the stored value.
StoreUpsert_Merge(st, batch, t) ==
    LET Old(id) == CHOOSE r \in st : r.id = id
        Put(r) == IF \E o \in st : o.id = r.id
                  THEN [c \in DataColumns \cup {"last_updated"} |->
                          IF c = "last_updated" THEN Old(r.id)[c]
                          ELSE IF c # "id" /\ r[c] = None THEN Old(r.id)[c]
                          ELSE r[c]]
                  ELSE StoredRow(r, t)
    IN  {r \in st : r.id \notin RowIds(batch)} \cup {Put(batch[n]) : n \in 1..Len(batch)}

\* supabase.from(...).upsert(batch, {onConflict: 'id'}) at time t: a row
\* whose id is not in the table is inserted, and last_updated, which the
\* payload does not carry, takes its default NOW(); a row whose id is in the
\* table has the columns of the payload, every data column, set to the
\* payload's values, and last_updated is left as it is.
StoreUpsert(st, batch, t) ==
    LET Old(id) == CHOOSE r \in st : r.id = id
        Put(r) == IF \E o \in st : o.id = r.id
                  THEN StoredRow(r, Old(r.id).last_updated)
                  ELSE StoredRow(r, t)
    IN  {r \in st : r.id \notin RowIds(batch)} \cup {Put(batch[n]) : n \in 1..Len(batch)}

\* ---------------------------------------------------------------- calls

NewFetch(c, pass) ==
    [chunk |-> c, pass |-> pass, st |-> "http", attempt |-> 1, https |-> 1,
     fails |-> 0, wait |-> 0, prev |-> 0, cause |-> "", n |-> 0, body |-> NoData]

\* What is kept of a fetchRange call once it has completed.
FetchSummary(call) ==
    [call EXCEPT !.attempt = 0, !.https = 0, !.fails = 0, !.wait = 0, !.prev = 0,
                 !.cause = "", !.body = NoData]

NoFetch ==
    [chunk |-> [start |-> 0, end |-> 0], pass |-> 0, st |-> "none", attempt |-> 0,
     https |-> 0, fails |-> 0, wait |-> 0, prev |-> 0, cause |-> "", n |-> 0,
     body |-> NoData]

\* A fetchRange call that has not completed: its request is out ("http"), the
\* headers have come and the body is being read ("body"), or it sleeps
\* before the next attempt.
FetchActive(call) == call.st \in {"http", "body", "sleep"}

\* The call has a request of its own pending: headers or body still to come.
FetchPending(call) == call.st \in {"http", "body"}

\* "await fetch" resolves with headers whose status is ok: clearTimeout(timer),
\* the resp.ok test passes, and the call suspends again at "await resp.json()".
FetchHeadersOk(call) == [call EXCEPT !.st = "body"]

\* Mutant of Slice: a sub-batch starts with the last row of the one before.
Slice_Overlap(rows, off) ==
    SubSeq(rows, IF off = 0 THEN 1 ELSE off, Min(off + batchSize, Len(rows)))

\* rows.slice(off, off + UPSERT_BATCH)
Slice(rows, off) == SubSeq(rows, off + 1, Min(off + batchSize, Len(rows)))

TaskActive(t) == t.st \in {"write", "sleep"}
TaskSettled(t) == t.st \in {"resolved", "rejected"}

\* ---------------------------------------------------------------- fetchWithRetry, fetchRange

\* Mutant of FetchAttemptFailed: the last attempt is taken one too early.
FetchAttemptFailed_OffByOne(call, cause) ==
    IF call.attempt >= MAX_RETRIES - 1
    THEN [call EXCEPT !.st = "thrown", !.fails = @ + 1, !.cause = cause]
    ELSE [call EXCEPT !.st = "sleep", !.fails = @ + 1, !.cause = cause,
                      !.wait = Min(3000 * 3^(call.attempt - 1), 90000)]

\* Mutant of FetchAttemptFailed: an attempt that timed out is not retried.
FetchAttemptFailed_TimeoutFatal(call, cause) ==
    IF call.attempt = MAX_RETRIES \/ cause = "timeout"
    THEN [call EXCEPT !.st = "thrown", !.fails = @ + 1, !.cause = cause]
    ELSE [call EXCEPT !.st = "sleep", !.fails = @ + 1, !.cause = cause,
                      !.wait = Min(3000 * 3^(call.attempt - 1), 90000)]

\* Mutant of FetchAttemptFailed: the wait grows linearly with the attempt.
FetchAttemptFailed_LinearWait(call, cause) ==
    IF call.attempt = MAX_RETRIES
    THEN [call EXCEPT !.st = "thrown", !.fails = @ + 1, !.cause = cause]
    ELSE [call EXCEPT !.st = "sleep", !.fails = @ + 1, !.cause = cause,
                      !.wait = 3000 * call.attempt]

\* The catch block of fetchWithRetry after a failed attempt: rethrow on the
\* last attempt, else sleep min(3000 * 3^(attempt-1), 90000) ms.
FetchAttemptFailed(call, cause) ==
    IF call.attempt = MAX_RETRIES
    THEN [call EXCEPT !.st = "thrown", !.fails = @ + 1, !.cause = cause]
    ELSE [call EXCEPT !.st = "sleep", !.fails = @ + 1, !.cause = cause,
                      !.wait = Min(3000 * 3^(call.attempt - 1), 90000)]

\* The sleep is over: the for loop's next iteration issues the next request.
\* prev remembers the wait that has just elapsed.
FetchRetry(call) ==
    [call EXCEPT !.st = "http", !.attempt = @ + 1, !.https = @ + 1,
                 !.wait = 0, !.prev = call.wait, !.cause = ""]

\* Mutant of FetchRangeResult: the error object is not looked at.
FetchRangeResult_IgnoreError(call, body) ==
    [call EXCEPT !.st = "returned", !.n = Len(body.features), !.body = body]

\* An attempt got an ok response with a JSON body: fetchWithRetry returns it,
\* and fetchRange throws when it carries an error object.
FetchRangeResult(call, body) ==
    IF body.kind = "error"
    THEN [call EXCEPT !.st = "thrown", !.cause = "payload", !.body = body]
    ELSE [call EXCEPT !.st = "returned", !.n = Len(body.features), !.body = body]

\* ---------------------------------------------------------------- upsertRows

\* upsertRows(rows) up to its first await: the first sub-batch is written.
NewTask(c, pass, rows) ==
    IF Len(rows) = 0
    THEN [chunk |-> c, pass |-> pass, st |-> "resolved", rows |-> rows, off |-> 0,
          attempt |-> 0, writes |-> 0, upserted |-> 0, wait |-> 0, res |-> 0,
          threw |-> FALSE]
    ELSE [chunk |-> c, pass |-> pass, st |-> "write", rows |-> rows, off |-> 0,
          attempt |-> 1, writes |-> 1, upserted |-> 0, wait |-> 0, res |-> 0,
          threw |-> FALSE]

\* What is kept of an upsertRows call once its promise has settled.
TaskSummary(t) ==
    [t EXCEPT !.rows = <<>>, !.off = 0, !.attempt = 0, !.writes = 0, !.upserted = 0,
              !.wait = 0]

\* Mutant of UpsertWritten: the call returns after its first sub-batch.
UpsertWritten_FirstOnly(t) ==
    LET n == Len(Slice(t.rows, t.off))
    IN  TaskSummary([t EXCEPT !.upserted = @ + n, !.off = t.off + batchSize,
                              !.st = "resolved", !.res = t.upserted + n])

\* The store acknowledged the sub-batch without error: count it and go on to
\* the next sub-batch, or return the count after the last one.
UpsertWritten(t) ==
    LET n == Len(Slice(t.rows, t.off))
        off == t.off + batchSize
    IN  IF off < Len(t.rows)
        THEN [t EXCEPT !.upserted = @ + n, !.off = off, !.attempt = 1, !.writes = 1]
        ELSE TaskSummary([t EXCEPT !.upserted = @ + n, !.off = off,
                                   !.st = "resolved", !.res = t.upserted + n])

\* Mutant of UpsertErrored: after an error the call neither retries nor
\* throws, so that its promise never settles.
UpsertErrored_Hangs(t) == [t EXCEPT !.st = "hung"]

\* Mutant of UpsertErrored: one more attempt before giving up.
UpsertErrored_OneMore(t) ==
    IF t.attempt = UPSERT_RETRIES + 1
    THEN TaskSummary([t EXCEPT !.st = IF t.pass = 1 THEN "resolved" ELSE "rejected",
                               !.res = 0, !.threw = TRUE])
    ELSE [t EXCEPT !.st = "sleep", !.wait = t.attempt * 10000]

\* The store answered with an error: throw on the last attempt (the promise
\* of a first-pass call is the one .catch returns, which resolves to 0), else
\* sleep attempt * 10000 ms.
UpsertErrored(t) ==
    IF t.attempt = UPSERT_RETRIES
    THEN TaskSummary([t EXCEPT !.st = IF t.pass = 1 THEN "resolved" ELSE "rejected",
                               !.res = 0, !.threw = TRUE])
    ELSE [t EXCEPT !.st = "sleep", !.wait = t.attempt * 10000]

\* The sleep is over: the next attempt writes the same sub-batch again.
UpsertRetry(t) ==
    [t EXCEPT !.st = "write", !.attempt = @ + 1, !.writes = @ + 1, !.wait = 0]

\* ---------------------------------------------------------------- main, second pass

\* Head of "for (const chunk of failedChunks)"; after the loop,
\* failedChunks = stillFailed and the summary is printed.
P2Iter(S) ==
    IF S.k <= Len(S.failed)
    THEN [S EXCEPT !.pc = "p2_cooldown"]
    ELSE [S EXCEPT !.failed = S.still, !.pc = "done"]

\* Mutant of P2FetchThrew: the loop does not move on after a failure, so the
\* range is tried again.
P2FetchThrew_Again(S) ==
    [S EXCEPT !.still = Append(@, S.failed[S.k]), !.pc = "p2_cooldown"]

\* Mutant of P2FetchThrew: a range that fails again is logged but not kept.
P2FetchThrew_NoPush(S) == P2Iter([S EXCEPT !.k = @ + 1])

P2FetchThrew(S) ==
    P2Iter([S EXCEPT !.still = Append(@, S.failed[S.k]), !.k = @ + 1])

P2FetchReturned(S, body) ==
    IF ~NoFeatures(body)
    THEN [S EXCEPT !.tF = @ + Len(body.features),
                   !.tasks = Append(@, NewTask(S.failed[S.k], 2, MapTransform(body.features))),
                   !.pc = "p2_upsert"]
    ELSE P2Iter([S EXCEPT !.k = @ + 1])

P2UpsertResolved(S, t) ==
    P2Iter([S EXCEPT !.tU = @ + S.tasks[t].res, !.k = @ + 1])

\* Mutant of P2UpsertRejected: the rejection of upsertRows is not caught in
\* the retry loop and reaches main().catch.
P2UpsertRejected_Fatal(S) == [S EXCEPT !.pc = "fatal"]

\* The catch block of the retry loop after upsertRows threw.
P2UpsertRejected(S) ==
    P2Iter([S EXCEPT !.still = Append(@, S.failed[S.k]), !.k = @ + 1])

\* main after "await runPipeline(chunks)".
MainAfterPipeline(S) ==
    IF Len(S.failed) > 0
    THEN P2Iter([S EXCEPT !.k = 1, !.still = <<>>])
    ELSE [S EXCEPT !.pc = "done"]

\* ---------------------------------------------------------------- runPipeline

\* Mutant of P1Final: runPipeline returns without awaiting the last upsert.
P1Final_NoAwait(S) == MainAfterPipeline(S)

\* "Wait for final upsert" and return.
P1Final(S) ==
    IF S.pu # 0
    THEN IF TaskSettled(S.tasks[S.pu])
         THEN MainAfterPipeline([S EXCEPT !.tU = @ + S.tasks[S.pu].res])
         ELSE [S EXCEPT !.pc = "p1_final"]
    ELSE MainAfterPipeline(S)

\* Mutant of P1Iter: the loop walks the ranges from the last to the first.
P1Iter_Descending(S) ==
    IF S.i <= Len(chunks)
    THEN [S EXCEPT !.pc = "p1_fetch",
                   !.fetches = Append(@, NewFetch(chunks[Len(chunks) + 1 - S.i], 1))]
    ELSE P1Final(S)

\* Head of the for loop: start the fetch of chunks[i], or leave the loop.
P1Iter(S) ==
    IF S.i <= Len(chunks)
    THEN [S EXCEPT !.pc = "p1_fetch",
                   !.fetches = Append(@, NewFetch(chunks[S.i], 1))]
    ELSE P1Final(S)

\* Mutant of P1StartUpsert: the promise is not kept in pendingUpsert.
P1StartUpsert_NotKept(S) ==
    [S EXCEPT !.tF = @ + Len(S.data.features),
              !.tasks = Append(@, NewTask(chunks[S.i], 1, MapTransform(S.data.features)))]

\* totalFetched += ...; pendingUpsert = upsertRows(rows).catch(...)
P1StartUpsert(S) ==
    [S EXCEPT !.tF = @ + Len(S.data.features),
              !.tasks = Append(@, NewTask(chunks[S.i], 1, MapTransform(S.data.features))),
              !.pu = Len(S.tasks) + 1]

\* Mutant of P1AfterAwait: a range without features is recorded as failed.
P1AfterAwait_EmptyFails(S) ==
    IF NoFeatures(S.data)
    THEN P1Iter([S EXCEPT !.failed = Append(@, chunks[S.i]), !.i = @ + 1, !.data = NoData])
    ELSE P1Iter([P1StartUpsert(S) EXCEPT !.i = @ + 1, !.data = NoData])

\* From "if (!data.features || data.features.length === 0) continue" on.
P1AfterAwait(S) ==
    IF NoFeatures(S.data)
    THEN P1Iter([S EXCEPT !.i = @ + 1, !.data = NoData])
    ELSE P1Iter([P1StartUpsert(S) EXCEPT !.i = @ + 1, !.data = NoData])

\* Mutant of P1AwaitPrev: the next upsert is started without awaiting the
\* previous one.
P1AwaitPrev_NoWait(S) == P1AfterAwait(S)

\* "Wait for previous upsert to finish before starting next one".
P1AwaitPrev(S) ==
    IF S.pu # 0
    THEN IF TaskSettled(S.tasks[S.pu])
         THEN P1AfterAwait([S EXCEPT !.tU = @ + S.tasks[S.pu].res, !.pu = 0])
         ELSE [S EXCEPT !.pc = "p1_await"]
    ELSE P1AfterAwait(S)

\* Mutant of P1FetchThrew: a fetch failure leaves the loop (break, not continue).
P1FetchThrew_Break(S) ==
    P1Final([S EXCEPT !.failed = Append(@, chunks[S.i]), !.i = Len(chunks) + 1])

P1FetchThrew(S) ==
    P1Iter([S EXCEPT !.failed = Append(@, chunks[S.i]), !.i = @ + 1])

P1FetchReturned(S, body) == P1AwaitPrev([S EXCEPT !.data = body])

\* ---------------------------------------------------------------- resumption

\* A fetchRange call has completed: main, which awaits it, goes on.
FetchCompleted(S, j, call) ==
    LET S1 == [S EXCEPT !.fetches[j] = FetchSummary(call), !.fres = call]
    IN  IF S.pc = "p1_fetch"
        THEN IF call.st = "thrown" THEN P1FetchThrew(S1)
             ELSE P1FetchReturned(S1, call.body)
        ELSE IF S.pc = "p2_fetch"
        THEN IF call.st = "thrown" THEN P2FetchThrew(S1)
             ELSE P2FetchReturned(S1, call.body)
        ELSE S1

\* Mutant of P1UpsertCatch: the handler logs and returns 0 without recording
\* the range.
P1UpsertCatch_NoPush(S, t) == S

\* The handler given to .catch in runPipeline.
P1UpsertCatch(S, t) ==
    IF S.tasks[t].pass = 1 /\ S.tasks[t].threw
    THEN [S EXCEPT !.failed = Append(@, S.tasks[t].chunk)]
    ELSE S

\* The promise of upsertRows call t has settled: whoever awaits it goes on.
TaskResume(S, t) ==
    LET S1 == P1UpsertCatch(S, t)
    IN  IF S1.pc = "p1_await" /\ S1.pu = t
        THEN P1AfterAwait([S1 EXCEPT !.tU = @ + S1.tasks[t].res, !.pu = 0])
        ELSE IF S1.pc = "p1_final" /\ S1.pu = t
        THEN MainAfterPipeline([S1 EXCEPT !.tU = @ + S1.tasks[t].res])
        ELSE IF S1.pc = "p2_upsert" /\ S1.tasks[t].pass = 2
        THEN IF S1.tasks[t].st = "rejected" THEN P2UpsertRejected(S1)
             ELSE P2UpsertResolved(S1, t)
        ELSE S1

\* ---------------------------------------------------------------- planner

\* Mutant of PlanChunk: the end is not clamped to MAX_ID.
PlanChunk_NoClamp(s, st, mx) == [start |-> s, end |-> s + st]

\* One range of the planner loop in main.
PlanChunk(s, st, mx) == [start |-> s, end |-> Min(s + st, mx)]

\* ---------------------------------------------------------------- actions

\* One iteration of "for (let start = START_ID; start < MAX_ID; start += RANGE_STEP)".
PlanStep ==
    /\ pc = "plan"
    /\ start < maxId
    /\ chunks' = Append(chunks, PlanChunk(start, step, maxId))
    /\ start' = start + step
    /\ UNCHANGED <<minId, maxId, step, envVars, pc, mainVars>>

\* The planner loop is over: main calls runPipeline, which runs up to its
\* first await.
StartPipeline ==
    /\ pc = "plan"
    /\ start >= maxId
    /\ Commit(P1Iter([Cur EXCEPT !.i = 1]))
    /\ UNCHANGED <<planVars, envVars>>

\* The headers of an attempt's response arrive and its status is ok: the
\* abort timer is cleared and the reading of the body begins.
HttpHeaders ==
    \E j \in DOMAIN fetches :
        /\ fetches[j].st = "http"
        /\ fetches[j].chunk.start # bad
        /\ Commit([Cur EXCEPT !.fetches[j] = FetchHeadersOk(@)])
        /\ UNCHANGED <<planVars, envVars>>

\* The body of an ok response has been read and decodes to a feature list.
HttpOk ==
    \E j \in DOMAIN fetches :
        /\ fetches[j].st = "body"
        /\ fetches[j].chunk.start # bad
        /\ Commit(FetchCompleted(Cur, j,
                    FetchRangeResult(fetches[j], FeatureBody(fetches[j].chunk))))
        /\ UNCHANGED <<planVars, envVars>>

\* The body of an ok response has been read and has no features member; the
\* layer answers so only for a range in which it holds no record.
HttpOkNoFeatures ==
    \E j \in DOMAIN fetches :
        /\ fetches[j].st = "body"
        /\ fetches[j].chunk.start # bad
        /\ FeaturesIn(fetches[j].chunk.start, fetches[j].chunk.end) = <<>>
        /\ Commit(FetchCompleted(Cur, j, FetchRangeResult(fetches[j], AbsentBody)))
        /\ UNCHANGED <<planVars, envVars>>

\* The body of an ok response has been read and carries an error object.
HttpErrorPayload ==
    \E j \in DOMAIN fetches :
        /\ fetches[j].st = "body"
        /\ bad = -1
        /\ Commit(FetchCompleted(Cur, j,
                    FetchRangeResult(fetches[j], ErrorBody(fetches[j].chunk))))
        /\ UNCHANGED <<planVars, envVars>>

\* An attempt fails: before the headers by timeout, transport error or a
\* status that is not ok; after ok headers because the body cannot be read.
HttpFail ==
    \E j \in DOMAIN fetches, cause \in FailKinds :
        /\ \/ fetches[j].st = "http" /\ cause \in HeaderFailKinds
           \/ fetches[j].st = "body" /\ cause \in BodyFailKinds
        /\ bad \in {-1, fetches[j].chunk.start}
        /\ LET call == FetchAttemptFailed(fetches[j], cause)
           IN  IF call.st = "thrown"
               THEN Commit(FetchCompleted(Cur, j, call))
               ELSE Commit([Cur EXCEPT !.fetches[j] = call])
        /\ UNCHANGED <<planVars, envVars>>

\* The backoff timer of fetchWithRetry fires.
FetchBackoffDone ==
    \E j \in DOMAIN fetches :
        /\ fetches[j].st = "sleep"
        /\ Commit([Cur EXCEPT !.fetches[j] = FetchRetry(@)])
        /\ UNCHANGED <<planVars, envVars>>

\* The store acknowledges a sub-batch.
WriteOk ==
    \E t \in DOMAIN tasks :
        /\ tasks[t].st = "write"
        /\ LET nt == UpsertWritten(tasks[t])
               S1 == [Cur EXCEPT !.tasks[t] = nt,
                                 !.store = StoreUpsert(@, Slice(tasks[t].rows, tasks[t].off), now)]
           IN  Commit(IF TaskSettled(nt) THEN TaskResume(S1, t) ELSE S1)
        /\ UNCHANGED <<planVars, envVars>>

\* The store answers a sub-batch write with an error.
WriteErr ==
    \E t \in DOMAIN tasks :
        /\ tasks[t].st = "write"
        /\ bad = -1
        /\ LET nt == UpsertErrored(tasks[t])
               S1 == [Cur EXCEPT !.tasks[t] = nt]
           IN  Commit(IF TaskSettled(nt) THEN TaskResume(S1, t) ELSE S1)
        /\ UNCHANGED <<planVars, envVars>>

\* The backoff timer of upsertRows fires.
UpsertBackoffDone ==
    \E t \in DOMAIN tasks :
        /\ tasks[t].st = "sleep"
        /\ Commit([Cur EXCEPT !.tasks[t] = UpsertRetry(@)])
        /\ UNCHANGED <<planVars, envVars>>

\* The 30 s timer of the retry loop fires: the range is fetched again.
CooldownDone ==
    /\ pc = "p2_cooldown"
    /\ Commit([Cur EXCEPT !.pc = "p2_fetch",
                          !.fetches = Append(@, NewFetch(failedChunks[k], 2))])
    /\ UNCHANGED <<planVars, envVars>>

\* One upsert request of a batch of transformed rows reaches the store and is
\* applied: what WriteOk does to the store, for a batch of any content.
StoreWrite ==
    \E b \in StoreBatches :
        /\ store' = StoreUpsert(store, b, now)
        /\ lastBatch' = [rows |-> b,
                         times |-> IF b = lastBatch.rows
                                   THEN Min(lastBatch.times + 1, 2) ELSE 1]
        /\ UNCHANGED <<planVars, upstream, bad, creds, batchSize, now, feat, row, runs,
                       srvVars,
                       pc, i, k,
                       failedChunks, stillFailed, totalFetched, totalUpserted,
                       pendingUpsert, data, fetches, fres, tasks>>

\* transformFeature(feat) is called and returns.
Transform ==
    /\ row = None
    /\ row' = Some(transformFeature(feat))
    /\ UNCHANGED <<planVars, upstream, bad, creds, batchSize, now, lastBatch, feat,
                   runs, srvVars, pc,
                   mainVars>>

\* ---- concurrent runs, as the store sees them

\* Mutant of RunPlan: the last range is not planned.
RECURSIVE RunPlan_DropLast(_)
RunPlan_DropLast(s) ==
    IF s + RANGE_STEP >= MAX_ID THEN <<>>
    ELSE <<PlanChunk(s, RANGE_STEP, MAX_ID)>> \o RunPlan_DropLast(s + RANGE_STEP)

\* The ranges main plans for a start identifier.
RECURSIVE RunPlan(_)
RunPlan(s) ==
    IF s >= MAX_ID THEN <<>>
    ELSE <<PlanChunk(s, RANGE_STEP, MAX_ID)>> \o RunPlan(s + RANGE_STEP)

\* A run seen from the store: the ranges it planned, the pass it is in (3
\* when it is over), the position in chunks (first pass) or in failed
\* (second pass) of the range it is writing, the offset of that range's next
\* sub-batch, its failedChunks, the stillFailed of its second pass, and the
\* number of failed ranges it has announced to retry.
NewRun(s) ==
    [chunks |-> RunPlan(s), pass |-> 1, idx |-> 1, off |-> 0, failed |-> <<>>,
     still |-> <<>>, retrying |-> 0]

RunRange(run) == IF run.pass = 1 THEN run.chunks[run.idx] ELSE run.failed[run.idx]
RunRows(run) == MapTransform(FeaturesIn(RunRange(run).start, RunRange(run).end))

\* The run has moved on to the next range: after the last range of the
\* first pass the failed ranges are retried, if any; after the last of
\* those failedChunks becomes stillFailed and the run is over.
RunSettle(run) ==
    IF run.pass = 1 /\ run.idx > Len(run.chunks)
    THEN IF run.failed = <<>> THEN [run EXCEPT !.pass = 3, !.idx = 0]
         ELSE [run EXCEPT !.pass = 2, !.idx = 1, !.retrying = Len(run.failed)]
    ELSE IF run.pass = 2 /\ run.idx > Len(run.failed)
    THEN [run EXCEPT !.pass = 3, !.idx = 0, !.failed = run.still, !.still = <<>>]
    ELSE run

\* seq with x put in before position n.
InsertAt(seq, n, x) == SubSeq(seq, 1, n - 1) \o <<x>> \o SubSeq(seq, n, Len(seq))

\* The fetch of the range run r is at returns no features: the range gets
\* no upsert and the run moves on.
RunEmpty(r) ==
    /\ runs[r].pass \in {1, 2}
    /\ RunRows(runs[r]) = <<>>
    /\ runs' = [runs EXCEPT ![r] = RunSettle([@ EXCEPT !.idx = @ + 1])]
    /\ UNCHANGED <<planVars, upstream, bad, creds, batchSize, now, lastBatch, feat,
                   row, srvVars, pc, mainVars>>

\* The store acknowledges the next sub-batch of run r, whose range has been
\* fetched with features.
RunWrite(r) ==
    /\ runs[r].pass \in {1, 2}
    /\ RunRows(runs[r]) # <<>>
    /\ LET run == runs[r]
           rows == RunRows(run)
           off == run.off + batchSize
       IN  /\ store' = StoreUpsert(store, Slice(rows, run.off), now)
           /\ runs' = [runs EXCEPT ![r] =
                          RunSettle(IF off < Len(rows) THEN [run EXCEPT !.off = off]
                                    ELSE [run EXCEPT !.idx = @ + 1, !.off = 0])]
    /\ UNCHANGED <<planVars, upstream, bad, creds, batchSize, now, lastBatch, feat,
                   row, srvVars, pc, i, k, failedChunks, stillFailed, totalFetched,
                   totalUpserted, pendingUpsert, data, fetches, fres, tasks>>

\* The range run r is at fails, its fetch before any write, whether the
\* layer holds records of the range or not, or its upsert at the next
\* sub-batch. In the first pass the range is pushed to the run's
\* failedChunks, last or, when the push of an upsert failure comes after the
\* push of the next range's fetch failure, last but one; in the second pass
\* it is pushed to stillFailed.
RunFail(r) ==
    /\ runs[r].pass \in {1, 2}
    /\ IF runs[r].pass = 1
       THEN \E n \in {Len(runs[r].failed), Len(runs[r].failed) + 1} :
               /\ n >= 1
               /\ runs' = [runs EXCEPT ![r] =
                              RunSettle([runs[r] EXCEPT
                                            !.failed = InsertAt(@, n, RunRange(runs[r])),
                                            !.idx = @ + 1, !.off = 0])]
       ELSE runs' = [runs EXCEPT ![r] =
                        RunSettle([runs[r] EXCEPT
                                      !.still = Append(@, RunRange(runs[r])),
                                      !.idx = @ + 1, !.off = 0])]
    /\ UNCHANGED <<planVars, upstream, bad, creds, batchSize, now, lastBatch, feat,
                   row, srvVars, pc, mainVars>>

\* Time passes at the store.
ClockTick ==
    /\ now < MaxClock
    /\ now' = now + 1
    /\ UNCHANGED <<planVars, upstream, bad, creds, batchSize, unitVars, pc, mainVars>>

\* ---------------------------------------------------------------- signing server

\* JavaScript truthiness of a value that is undefined (None) or a string.
Truthy(x) == x # None /\ x # Some("")

\* isDocuSignConfigured(), mutant: the account id is not looked at.
isDocuSignConfigured_NoAccount(cfg) ==
    Truthy(cfg.integrationKey) /\ Truthy(cfg.userId)

isDocuSignConfigured(cfg) ==
    Truthy(cfg.integrationKey) /\ Truthy(cfg.userId) /\ Truthy(cfg.accountId)

isTemplateConfigured(cfg) == Truthy(cfg.templateId)

\* getAccessToken, mutant of the cache test: the five minutes are not taken off.
CacheValid_NoBuffer(tok, exp, t) == Truthy(tok) /\ t < exp

\* getAccessToken: the test that lets it return the cached token.
CacheValid(tok, exp, t) == Truthy(tok) /\ t < exp - TOKEN_BUFFER_MS

\* DOCUSIGN_PRIVATE_KEY_PATH || 'config/docusign-private.key'
DefaultKeyPath == "config/docusign-private.key"

\* getAccessToken up to its first await: "cached" when it returns the cached
\* token, "nokey" when neither DOCUSIGN_PRIVATE_KEY nor the key file is
\* there, "badkey" when jwt.sign throws on the key, "exchange" when the
\* token request is sent.
GetAccessTokenStart(cfg, tok, exp, t) ==
    IF CacheValid(tok, exp, t) THEN "cached"
    ELSE IF cfg.privateKey = "missing" THEN "nokey"
    ELSE IF cfg.privateKey = "malformed" THEN "badkey"
    ELSE "exchange"

\* String.prototype.includes
Includes(s, sub) ==
    \E n \in 1..(Len(s) - Len(sub) + 1) : SubSeq(s, n, n + Len(sub) - 1) = sub

\* The segments of path s from its n-th character on, that is the strings
\* between its slashes, appended to acc; cur is the segment being read.
RECURSIVE PathSplit(_, _, _, _)
PathSplit(s, n, cur, acc) ==
    IF n > Len(s) THEN Append(acc, cur)
    ELSE IF SubSeq(s, n, n) = "/" THEN PathSplit(s, n + 1, "", Append(acc, cur))
    ELSE PathSplit(s, n + 1, cur \o SubSeq(s, n, n), acc)

\* The segments an absolute path comes down to: empty segments and "." are
\* dropped, ".." takes the segment before it away and is dropped at the root.
RECURSIVE PathNormal(_, _)
PathNormal(segs, acc) ==
    IF segs = <<>> THEN acc
    ELSE LET seg == Head(segs)
         IN  PathNormal(Tail(segs),
                        IF seg \in {"", "."} THEN acc
                        ELSE IF seg = ".." THEN SubSeq(acc, 1, Len(acc) - 1)
                        ELSE Append(acc, seg))

\* The absolute path with the segments segs: "/" for none, no trailing slash.
RECURSIVE PathJoin(_)
PathJoin(segs) ==
    IF segs = <<>> THEN ""
    ELSE "/" \o Head(segs) \o PathJoin(Tail(segs))

\* path.resolve(p) in a process whose working directory is cwd: a relative
\* path is appended to the working directory, and the result is normalised.
PathResolve(cwd, p) ==
    LET full == IF Len(p) > 0 /\ SubSeq(p, 1, 1) = "/" THEN p ELSE cwd \o "/" \o p
        segs == PathNormal(PathSplit(full, 1, "", <<>>), <<>>)
    IN  IF segs = <<>> THEN "/" ELSE PathJoin(segs)

\* The message of the error getAccessToken throws when it finds no key.
KeyNotFoundMessage(keyPath) ==
    "RSA private key not found at " \o keyPath
        \o " and DOCUSIGN_PRIVATE_KEY env var not set. "
        \o "See docusign-setup.md for instructions on generating and placing the key."

\* The message of the error jwt.sign throws on a key it cannot use.
SignErrorMessage == "secretOrPrivateKey must be an asymmetric key when using RS256"

\* The message of the error getAccessToken throws before its first await,
\* go being "nokey" or "badkey".
GetAccessTokenError(cfg, go) ==
    IF go = "nokey" THEN KeyNotFoundMessage(PathResolve(cfg.cwd, cfg.privateKeyPath))
    ELSE SignErrorMessage

\* tokenExpiresAt after an exchange answered at time t with expires_in e.
ExpiresAt(t, e) ==
    t + (IF e = None \/ e = Some(0) THEN DEFAULT_EXPIRES_IN ELSE e[1]) * 1000

\* create-envelope, mutant: the body is looked at before the configuration.
EnvelopeChecks_BodyFirst(cfg, body) ==
    IF ~Truthy(body.signerEmail) \/ ~Truthy(body.signerName)
          \/ ~Truthy(body.propertyAddress) THEN 400
    ELSE IF ~isDocuSignConfigured(cfg) THEN 503
    ELSE IF ~isTemplateConfigured(cfg) THEN 503
    ELSE 0

\* create-envelope before getAccessToken is called: the status it answers
\* with, or 0 when it goes on.
EnvelopeChecks(cfg, body) ==
    IF ~isDocuSignConfigured(cfg) THEN 503
    ELSE IF ~Truthy(body.signerEmail) \/ ~Truthy(body.signerName)
          \/ ~Truthy(body.propertyAddress) THEN 400
    ELSE IF ~isTemplateConfigured(cfg) THEN 503
    ELSE 0

\* A create-envelope request in flight: its body, the await it is suspended
\* at, and what it has called so far. route and event tell a request of
\* GET /api/docusign/callback, which has req.query.event and, in the place
\* of the body's, req.query.submissionId.
NewRequest(body) ==
    [route |-> "create-envelope", body |-> body, event |-> None, pc |-> "start",
     accessToken |-> None, exchanges |-> 0, envelopes |-> 0, patch |-> "none",
     views |-> 0]

\* What a request was answered with: res.status(...).json(...); url tells
\* that the body is { url } and not { error }. location is the target of
\* res.redirect(...), None when the answer is not a redirect.
Answer(req, status) ==
    [route |-> req.route, body |-> req.body, event |-> req.event, status |-> status,
     url |-> status = 200, location |-> None, exchanges |-> req.exchanges,
     envelopes |-> req.envelopes, patch |-> req.patch, views |-> req.views]

NoBody == [signerEmail |-> None, signerName |-> None, propertyAddress |-> None,
           submissionId |-> None]
NoResponse == Answer(NewRequest(NoBody), 0)

\* The clients of the server, each with at most one request in flight, and
\* what reqs holds for a client that has none.
Clients == {"a", "b"}
Idle == [NewRequest(NoBody) EXCEPT !.pc = "idle"]
InFlight == {c \in Clients : reqs[c].pc # "idle"}

\* The catch block of create-envelope: 403 when the message of the error
\* includes 'consent', else 500.
CatchStatus_Always500(consent) == 500

CatchStatus(consent) == IF consent THEN 403 ELSE 500

\* The catch block of create-envelope on an error with the message msg.
CatchMessage(msg) == CatchStatus(Includes(msg, "consent"))

\* The token request's headers have arrived: with an ok status the body is
\* read by resp.json(), else by resp.text() for the message of the error.
TokenHeadersIn(req, ok) ==
    [req EXCEPT !.pc = IF ok THEN "token_json" ELSE "token_text"]

\* The awaits of getAccessToken a request can be suspended at.
TokenAwaits == {"token", "token_json", "token_text"}

\* create-envelope after getAccessToken has returned tok: createEnvelope is
\* called.
AfterToken(req, tok) ==
    [req EXCEPT !.pc = "envelope", !.accessToken = tok, !.envelopes = @ + 1]

\* create-envelope after the update of the submission row, made or not:
\* createRecipientView is called.
AfterPatch(req) == [req EXCEPT !.pc = "view", !.views = @ + 1]

\* create-envelope after createEnvelope has returned: the submission row is
\* updated when there is a submissionId and Supabase is configured.
AfterEnvelope(req, supabase) ==
    IF Truthy(req.body.submissionId) /\ supabase
    THEN [req EXCEPT !.pc = "patch", !.patch = "sent"]
    ELSE AfterPatch(req)

\* The bodies posted: complete, with and without a submissionId, and with
\* one required field absent or empty.
FullBody ==
    [signerEmail |-> Some("x"), signerName |-> Some("x"), propertyAddress |-> Some("x"),
     submissionId |-> None]
Bodies ==
    {FullBody, [FullBody EXCEPT !.submissionId = Some("7")], NoBody,
     [FullBody EXCEPT !.signerEmail = None],
     [FullBody EXCEPT !.signerEmail = Some(""), !.submissionId = Some("7")],
     [FullBody EXCEPT !.signerName = None],
     [FullBody EXCEPT !.propertyAddress = Some("")]}

\* POST /api/docusign/create-envelope arrives from client c and runs to its
\* first await or to its answer.
Post(c, body) ==
    /\ reqs[c].pc = "idle"
    /\ LET req == NewRequest(body)
           st == EnvelopeChecks(DOCUSIGN_CONFIG, body)
           go == GetAccessTokenStart(DOCUSIGN_CONFIG, cachedToken, tokenExpiresAt,
                                     clock)
       IN  IF st # 0
           THEN /\ res' = Answer(req, st)
                /\ reqs' = reqs
           ELSE IF go = "cached"
           THEN /\ reqs' = [reqs EXCEPT ![c] = AfterToken(req, cachedToken)]
                /\ res' = res
           ELSE IF go = "exchange"
           THEN /\ reqs' = [reqs EXCEPT ![c] = [req EXCEPT !.pc = "token",
                                                          !.exchanges = @ + 1]]
                /\ res' = res
           ELSE /\ res' = Answer(req, CatchMessage(GetAccessTokenError(DOCUSIGN_CONFIG, go)))
                /\ reqs' = reqs
    /\ UNCHANGED <<DOCUSIGN_CONFIG, SUPABASE_HEADERS, cachedToken, tokenExpiresAt,
                   clock>>
    /\ UNCHANGED <<planVars, upstream, bad, creds, batchSize, now, lastBatch, feat,
                   row, runs, pc, mainVars>>

\* The headers of the token endpoint's answer arrive, ok or not: the
\* request goes on to read the body and nothing else changes.
TokenHeaders ==
    \E r \in Clients : \E ok \in BOOLEAN :
        /\ reqs[r].pc = "token"
        /\ reqs' = [reqs EXCEPT ![r] = TokenHeadersIn(@, ok)]
        /\ UNCHANGED <<DOCUSIGN_CONFIG, SUPABASE_HEADERS, cachedToken,
                       tokenExpiresAt, clock, res>>
        /\ UNCHANGED <<planVars, upstream, bad, creds, batchSize, now, lastBatch,
                       feat, row, runs, pc, mainVars>>

\* The body of the token endpoint's ok answer has been read and parses: the
\* token is cached, its expiry counted from the time of this step, and
\* createEnvelope is called with it.
TokenOk ==
    \E r \in Clients : \E tok \in {Some("t1"), Some("t2")} :
      \E e \in {None, Some(0), Some(SHORT_EXPIRES_IN)} :
        /\ reqs[r].pc = "token_json"
        /\ cachedToken' = tok
        /\ tokenExpiresAt' = ExpiresAt(clock, e)
        /\ reqs' = [reqs EXCEPT ![r] = AfterToken(@, tok)]
        /\ UNCHANGED <<DOCUSIGN_CONFIG, SUPABASE_HEADERS, clock, res>>
        /\ UNCHANGED <<planVars, upstream, bad, creds, batchSize, now, lastBatch,
                       feat, row, runs, pc, mainVars>>

\* An awaited call of request r throws: the token request is rejected
\* (pc "token"), the body of its ok answer cannot be read or does not parse
\* ("token_json"), the body of its not-ok answer has been read, or could
\* not be, and getAccessToken throws ("token_text"), createEnvelope throws
\* ("envelope") or createRecipientView throws ("view").
CallFails ==
    \E r \in Clients : \E consent \in BOOLEAN :
        /\ reqs[r].pc \in TokenAwaits \cup {"envelope", "view"}
        /\ res' = Answer(reqs[r], CatchStatus(consent))
        /\ reqs' = [reqs EXCEPT ![r] = Idle]
        /\ UNCHANGED <<DOCUSIGN_CONFIG, SUPABASE_HEADERS, cachedToken,
                       tokenExpiresAt, clock>>
        /\ UNCHANGED <<planVars, upstream, bad, creds, batchSize, now, lastBatch,
                       feat, row, runs, pc, mainVars>>

\* createEnvelope returns the envelope.
EnvelopeOk ==
    \E r \in Clients :
        /\ reqs[r].pc = "envelope"
        /\ reqs' = [reqs EXCEPT ![r] = AfterEnvelope(@, SUPABASE_HEADERS)]
        /\ UNCHANGED <<DOCUSIGN_CONFIG, SUPABASE_HEADERS, cachedToken,
                       tokenExpiresAt, clock, res>>
        /\ UNCHANGED <<planVars, upstream, bad, creds, batchSize, now, lastBatch,
                       feat, row, runs, pc, mainVars>>

\* The PATCH of the submission row settles: answered, with any status, or
\* rejected, which the inner catch only logs.
PatchSettles ==
    \E r \in Clients : \E how \in {"ok", "notok", "rejected"} :
        /\ reqs[r].pc = "patch"
        /\ reqs' = [reqs EXCEPT ![r] = AfterPatch([@ EXCEPT !.patch = how])]
        /\ UNCHANGED <<DOCUSIGN_CONFIG, SUPABASE_HEADERS, cachedToken,
                       tokenExpiresAt, clock, res>>
        /\ UNCHANGED <<planVars, upstream, bad, creds, batchSize, now, lastBatch,
                       feat, row, runs, pc, mainVars>>

\* createRecipientView returns: the request is answered with the url.
ViewOk ==
    \E r \in Clients :
        /\ reqs[r].pc = "view"
        /\ res' = Answer(reqs[r], 200)
        /\ reqs' = [reqs EXCEPT ![r] = Idle]
        /\ UNCHANGED <<DOCUSIGN_CONFIG, SUPABASE_HEADERS, cachedToken,
                       tokenExpiresAt, clock>>
        /\ UNCHANGED <<planVars, upstream, bad, creds, batchSize, now, lastBatch,
                       feat, row, runs, pc, mainVars>>

\* ---- GET /api/docusign/callback

\* req.query of a callback: event absent, empty or given, with and without a
\* submissionId.
Queries == [event : {None, Some(""), Some("signing_complete"), Some("decline")},
            submissionId : {None, Some("7")}]

\* const event = req.query.event || 'unknown'
EventOf(e) == IF Truthy(e) THEN e[1] ELSE "unknown"

\* A callback request with query q.
NewCallback(q) ==
    [NewRequest([NoBody EXCEPT !.submissionId = q.submissionId]) EXCEPT
        !.route = "callback", !.event = q.event]

\* res.redirect(`/#signing-${event}`): status 302 and the Location header.
Redirect(req) ==
    [Answer(req, 302) EXCEPT !.location = Some("/#signing-" \o EventOf(req.event))]

\* Mutant of CallbackSettled: a rejected update is not caught and the
\* request is answered 500.
CallbackSettled_Uncaught(req, how) ==
    IF how = "rejected" THEN Answer([req EXCEPT !.patch = how], 500)
    ELSE Redirect([req EXCEPT !.patch = how])

\* The callback after its update of the submission row has settled in the
\* way how: the response is not looked at and a rejection is only logged.
CallbackSettled(req, how) == Redirect([req EXCEPT !.patch = how])

\* GET /api/docusign/callback arrives from client c: the submission row is
\* updated when there is a submissionId and Supabase is configured, else
\* the redirect is sent at once.
Callback(c, q) ==
    /\ reqs[c].pc = "idle"
    /\ IF Truthy(q.submissionId) /\ SUPABASE_HEADERS
       THEN /\ reqs' = [reqs EXCEPT ![c] = [NewCallback(q) EXCEPT !.pc = "cb_patch",
                                                                 !.patch = "sent"]]
            /\ res' = res
       ELSE /\ res' = Redirect(NewCallback(q))
            /\ reqs' = reqs
    /\ UNCHANGED <<DOCUSIGN_CONFIG, SUPABASE_HEADERS, cachedToken, tokenExpiresAt,
                   clock>>
    /\ UNCHANGED <<planVars, upstream, bad, creds, batchSize, now, lastBatch, feat,
                   row, runs, pc, mainVars>>

\* The PATCH sent by a callback settles: answered, with any status, or
\* rejected.
CallbackPatchSettles ==
    \E r \in Clients : \E how \in {"ok", "notok", "rejected"} :
        /\ reqs[r].pc = "cb_patch"
        /\ res' = CallbackSettled(reqs[r], how)
        /\ reqs' = [reqs EXCEPT ![r] = Idle]
        /\ UNCHANGED <<DOCUSIGN_CONFIG, SUPABASE_HEADERS, cachedToken,
                       tokenExpiresAt, clock>>
        /\ UNCHANGED <<planVars, upstream, bad, creds, batchSize, now, lastBatch,
                       feat, row, runs, pc, mainVars>>

\* The instants Date.now() is looked at: around the one a token with the
\* default lifetime, obtained at 0 or at 1, stops being returned from the
\* cache.
FreshFor == DEFAULT_EXPIRES_IN * 1000 - TOKEN_BUFFER_MS
Instants == {0, 1, FreshFor - 1, FreshFor, FreshFor + 1}

\* Time passes at the server.
ServerTick ==
    \E t \in Instants :
        /\ t > clock
        /\ clock' = t
        /\ UNCHANGED <<DOCUSIGN_CONFIG, SUPABASE_HEADERS, cachedToken,
                       tokenExpiresAt, reqs, res>>
        /\ UNCHANGED <<planVars, upstream, bad, creds, batchSize, now, lastBatch,
                       feat, row, runs, pc, mainVars>>

\* The signing server before any request, not configured.
ServerAtRest ==
    /\ DOCUSIGN_CONFIG = [integrationKey |-> None, userId |-> None, accountId |-> None,
                          templateId |-> None, privateKey |-> "missing",
                          privateKeyPath |-> DefaultKeyPath, cwd |-> "/srv/app"]
    /\ SUPABASE_HEADERS = FALSE
    /\ cachedToken = None
    /\ tokenExpiresAt = 0
    /\ clock = 0
    /\ reqs = [c \in Clients |-> Idle]
    /\ res = NoResponse

\* ---------------------------------------------------------------- specifications

AllIds == DEFAULT_MIN_ID..(MAX_ID - 1)

\* The upstream layers tried: every identifier present, and a sparse one.
Upstreams == {AllIds, {x \in AllIds : x % 4 \in {0, 1}}}

\* The variables of the store and transformFeature specifications, at rest.
InitUnits ==
    /\ lastBatch = [rows |-> <<>>, times |-> 0]
    /\ feat = FeatureOf(0)
    /\ row = None
    /\ runs = <<>>
    /\ ServerAtRest

\* The state after the module's top-level code: with a credential missing
\* the process has exited with code 1 (pc = "exit1"), else main starts.
InitMain ==
    /\ pc = IF creds THEN "plan" ELSE "exit1"
    /\ i = 0
    /\ k = 0
    /\ failedChunks = <<>>
    /\ stillFailed = <<>>
    /\ totalFetched = 0
    /\ totalUpserted = 0
    /\ pendingUpsert = 0
    /\ data = NoData
    /\ fetches = <<>>
    /\ fres = NoFetch
    /\ tasks = <<>>
    /\ store = {}
    /\ batchSize = UPSERT_BATCH
    /\ now = 0

Init ==
    /\ minId \in DEFAULT_MIN_ID..MAX_ID
    /\ maxId = MAX_ID
    /\ step = RANGE_STEP
    /\ start = minId
    /\ chunks = <<>>
    /\ upstream \in Upstreams
    /\ bad = -1
    /\ creds = TRUE
    /\ InitMain
    /\ InitUnits

Next ==
    \/ PlanStep
    \/ StartPipeline
    \/ HttpHeaders
    \/ HttpOk
    \/ HttpOkNoFeatures
    \/ HttpErrorPayload
    \/ HttpFail
    \/ FetchBackoffDone
    \/ WriteOk
    \/ WriteErr
    \/ UpsertBackoffDone
    \/ CooldownDone

Spec == Init /\ [][Next]_vars

\* The run under the assumption that what is in flight completes: an HTTP
\* request is answered or fails, a store write is acknowledged or refused,
\* a timer fires, and the code that is ready to run runs. The runs looked at
\* are those of two ranges, the first one of RANGE_STEP identifiers, hence of
\* several sub-batches, and of the single last range, over a full, a sparse
\* and an empty layer.
InitLive ==
    /\ minId \in {MAX_ID - RANGE_STEP - 1, MAX_ID - 1}
    /\ maxId = MAX_ID
    /\ step = RANGE_STEP
    /\ start = minId
    /\ chunks = <<>>
    /\ upstream \in Upstreams \cup {{}}
    /\ bad = -1
    /\ creds = TRUE
    /\ InitMain
    /\ InitUnits

SpecLive == InitLive /\ [][Next]_vars /\ WF_vars(Next)

\* The process from its start, with and without the store credentials.
InitProcess ==
    /\ minId \in DEFAULT_MIN_ID..MAX_ID
    /\ maxId = MAX_ID
    /\ step = RANGE_STEP
    /\ start = minId
    /\ chunks = <<>>
    /\ upstream \in Upstreams
    /\ bad = -1
    /\ creds \in BOOLEAN
    /\ InitMain
    /\ InitUnits

SpecProcess == InitProcess /\ [][Next]_vars

\* The planner alone, for every start identifier, upper bound and step.
InitPlan ==
    /\ minId \in 0..PlanMaxId
    /\ maxId \in 0..PlanMaxId
    /\ step \in 1..PlanMaxStep
    /\ start = minId
    /\ chunks = <<>>
    /\ upstream = {}
    /\ bad = -1
    /\ creds = TRUE
    /\ InitMain
    /\ InitUnits

NextPlan == PlanStep

SpecPlan == InitPlan /\ [][NextPlan]_vars

\* The scenario of one range the upstream never answers: every request for
\* the range starting at bad fails, every other request succeeds with the
\* feature list, and the store accepts every write.
InitOneBad ==
    /\ minId \in DEFAULT_MIN_ID..(MAX_ID - 1)
    /\ maxId = MAX_ID
    /\ step = RANGE_STEP
    /\ start = minId
    /\ chunks = <<>>
    /\ upstream \in Upstreams
    /\ bad \in {x \in minId..(MAX_ID - 1) : (x - minId) % RANGE_STEP = 0}
    /\ creds = TRUE
    /\ InitMain
    /\ InitUnits

NextOneBad ==
    \/ PlanStep
    \/ StartPipeline
    \/ HttpHeaders
    \/ HttpOk
    \/ HttpFail
    \/ FetchBackoffDone
    \/ WriteOk
    \/ CooldownDone

SpecOneBad == InitOneBad /\ [][NextOneBad]_vars

\* One upsertRows call of the second pass, awaited by main, for every number
\* of rows up to MaxRows and every sub-batch size up to MaxBatch: the range
\* is in failedChunks because its fetch threw in the first pass, and its
\* fetch of the second pass has returned.
InitUpsert ==
    /\ \E n \in 1..MaxRows :
          /\ maxId = n
          /\ chunks = <<[start |-> 0, end |-> n]>>
          /\ upstream = 0..(n - 1)
    /\ batchSize \in 1..MaxBatch
    /\ creds = TRUE
    /\ minId = 0
    /\ step = maxId
    /\ start = maxId
    /\ bad = -1
    /\ pc = "p2_upsert"
    /\ i = 2
    /\ k = 1
    /\ failedChunks = chunks
    /\ stillFailed = <<>>
    /\ totalFetched = maxId
    /\ totalUpserted = 0
    /\ pendingUpsert = 0
    /\ data = NoData
    /\ fetches = <<FetchSummary(FetchRangeResult(NewFetch(chunks[1], 1), ErrorBody(chunks[1]))),
                   FetchSummary(FetchRangeResult(NewFetch(chunks[1], 2), FeatureBody(chunks[1])))>>
    /\ fres = FetchRangeResult(NewFetch(chunks[1], 2), FeatureBody(chunks[1]))
    /\ tasks = <<NewTask(chunks[1], 2, MapTransform(FeaturesIn(0, maxId)))>>
    /\ store = {}
    /\ now = 0
    /\ InitUnits

NextUpsert ==
    \/ WriteOk
    \/ WriteErr
    \/ UpsertBackoffDone

SpecUpsert == InitUpsert /\ [][NextUpsert]_vars

\* The store alone: batches of transformed rows are upserted while time
\* passes.
InitStore ==
    /\ minId = 0
    /\ maxId = 0
    /\ step = RANGE_STEP
    /\ start = 0
    /\ chunks = <<>>
    /\ upstream = {}
    /\ bad = -1
    /\ creds = TRUE
    /\ InitMain
    /\ InitUnits

NextStore ==
    \/ StoreWrite
    \/ ClockTick

SpecStore == InitStore /\ [][NextStore]_vars

\* transformFeature alone, on every feature of TransformInputs.
InitTransform ==
    /\ minId = 0
    /\ maxId = 0
    /\ step = RANGE_STEP
    /\ start = 0
    /\ chunks = <<>>
    /\ upstream = {}
    /\ bad = -1
    /\ creds = TRUE
    /\ InitMain
    /\ lastBatch = [rows |-> <<>>, times |-> 0]
    /\ feat \in TransformInputs
    /\ row = None
    /\ ServerAtRest
    /\ runs = <<>>

NextTransform == Transform

SpecTransform == InitTransform /\ [][NextTransform]_vars

\* Two runs started with any two start identifiers write to one store,
\* their sub-batch writes interleaved in every way.
InitTwoRuns ==
    /\ minId \in DEFAULT_MIN_ID..(MAX_ID - 1)
    /\ maxId = MAX_ID
    /\ step = RANGE_STEP
    /\ start = minId
    /\ chunks = <<>>
    /\ upstream \in Upstreams
    /\ bad = -1
    /\ creds = TRUE
    /\ InitMain
    /\ lastBatch = [rows |-> <<>>, times |-> 0]
    /\ feat = FeatureOf(0)
    /\ row = None
    /\ \E s \in minId..(MAX_ID - 1) :
          runs = <<RunSettle(NewRun(minId)), RunSettle(NewRun(s))>>
    /\ ServerAtRest

NextTwoRuns ==
    \/ \E r \in DOMAIN runs : RunEmpty(r)
    \/ \E r \in DOMAIN runs : RunWrite(r)
    \/ \E r \in DOMAIN runs : RunFail(r)

SpecTwoRuns == InitTwoRuns /\ [][NextTwoRuns]_vars

\* ---- claim vocabulary of the server

\* A value of the environment or of a request body that is unset or missing:
\* absent or the empty string.
Unset(x) == x = None \/ x = Some("")

\* The signing server: the environment it is started in, and the requests
\* and responses of create-envelope.
ConfigCases == {None, Some(""), Some("id")}

\* Where the key file is looked for: the default path in three working
\* directories, and paths set by DOCUSIGN_PRIVATE_KEY_PATH, one of them with
\* a ".." segment and an empty one.
KeyPlaces ==
    {[privateKeyPath |-> DefaultKeyPath, cwd |-> "/srv/app"],
     [privateKeyPath |-> DefaultKeyPath, cwd |-> "/srv/consent-forms"],
     [privateKeyPath |-> DefaultKeyPath, cwd |-> "/"],
     [privateKeyPath |-> "/etc/docusign/consent/private.key", cwd |-> "/srv/app"],
     [privateKeyPath |-> "/srv/consent/../keys//private.key", cwd |-> "/srv/app"]}

\* privateKey tells where getAccessToken finds the key: in
\* DOCUSIGN_PRIVATE_KEY ("env", or "malformed" when jwt.sign cannot use it),
\* in the key file, or nowhere.  The place of the key file is varied where
\* the code looks at it beyond reading the file: when the key is missing.
Configs ==
    {cfg \in [integrationKey : ConfigCases, userId : {None, Some("id")},
              accountId : {None, Some("id")}, templateId : ConfigCases,
              privateKey : {"env", "file", "missing", "malformed"},
              privateKeyPath : {place.privateKeyPath : place \in KeyPlaces},
              cwd : {place.cwd : place \in KeyPlaces}] :
        /\ [privateKeyPath |-> cfg.privateKeyPath, cwd |-> cfg.cwd] \in KeyPlaces
        /\ cfg.privateKey # "missing" =>
              cfg.privateKeyPath = DefaultKeyPath /\ cfg.cwd = "/srv/app"}

InitServer ==
    /\ minId = 0
    /\ maxId = 0
    /\ step = RANGE_STEP
    /\ start = 0
    /\ chunks = <<>>
    /\ upstream = {}
    /\ bad = -1
    /\ creds = TRUE
    /\ InitMain
    /\ lastBatch = [rows |-> <<>>, times |-> 0]
    /\ feat = FeatureOf(0)
    /\ row = None
    /\ runs = <<>>
    /\ DOCUSIGN_CONFIG \in Configs
    /\ SUPABASE_HEADERS \in BOOLEAN
    /\ cachedToken = None
    /\ tokenExpiresAt = 0
    /\ clock = 0
    /\ reqs = [c \in Clients |-> Idle]
    /\ res = NoResponse

NextServer ==
    \/ \E c \in Clients : \E body \in Bodies : Post(c, body)
    \/ TokenHeaders
    \/ TokenOk
    \/ CallFails
    \/ EnvelopeOk
    \/ PatchSettles
    \/ ViewOk

SpecServer == InitServer /\ [][NextServer]_vars

\* The signing flow: create-envelope requests with a complete body and
\* callbacks, to a server with DocuSign configured, with and without
\* Supabase.
InitSigning ==
    /\ InitServer
    /\ ~Unset(DOCUSIGN_CONFIG.integrationKey)
    /\ ~Unset(DOCUSIGN_CONFIG.userId)
    /\ ~Unset(DOCUSIGN_CONFIG.accountId)
    /\ ~Unset(DOCUSIGN_CONFIG.templateId)
    /\ DOCUSIGN_CONFIG.privateKey = "env"

NextSigning ==
    \/ \E c \in Clients : \E id \in {None, Some("7")} :
          Post(c, [FullBody EXCEPT !.submissionId = id])
    \/ \E c \in Clients : \E q \in Queries : Callback(c, q)
    \/ TokenHeaders
    \/ TokenOk
    \/ CallFails
    \/ EnvelopeOk
    \/ PatchSettles
    \/ ViewOk
    \/ CallbackPatchSettles

SpecSigning == InitSigning /\ [][NextSigning]_vars

\* The token cache: complete requests to a configured server, over time.
InitToken ==
    /\ InitServer
    /\ ~Unset(DOCUSIGN_CONFIG.integrationKey)
    /\ ~Unset(DOCUSIGN_CONFIG.userId)
    /\ ~Unset(DOCUSIGN_CONFIG.accountId)
    /\ ~Unset(DOCUSIGN_CONFIG.templateId)
    /\ ~SUPABASE_HEADERS

NextToken ==
    \/ \E c \in Clients : Post(c, FullBody)
    \/ TokenHeaders
    \/ TokenOk
    \/ CallFails
    \/ EnvelopeOk
    \/ ViewOk
    \/ ServerTick

SpecToken == InitToken /\ [][NextToken]_vars

\* ---------------------------------------------------------------- claims

PlanOver == pc = "plan" /\ start >= maxId

Covered == {x \in 0..(PlanMaxId + PlanMaxStep + MAX_ID) :
                \E n \in 1..Len(chunks) : chunks[n].start <= x /\ x < chunks[n].end}

\* C9: for minId < maxId and step > 0 the planned ranges are ascending,
\* non-empty, at most step long, contiguous and non-overlapping, the first
\* starts at minId, and when the loop is over the last ends at maxId and the
\* union of the ranges is exactly [minId, maxId).
C9_PlannerCovers ==
    minId < maxId =>
        /\ \A n \in 1..Len(chunks) :
              /\ chunks[n].start < chunks[n].end
              /\ chunks[n].end - chunks[n].start <= step
        /\ \A n \in 1..(Len(chunks) - 1) : chunks[n].end = chunks[n + 1].start
        /\ \A m, n \in 1..Len(chunks) : m < n => chunks[m].end <= chunks[n].start
        /\ Len(chunks) > 0 => chunks[1].start = minId
        /\ PlanOver =>
              /\ Len(chunks) > 0
              /\ chunks[Len(chunks)].end = maxId
              /\ Covered = minId..(maxId - 1)

\* A resumed run (minId > 0) planned into three or more ranges, the last one
\* shorter than the step.
C9_Witness ==
    /\ PlanOver
    /\ minId > 0
    /\ Len(chunks) >= 3
    /\ chunks[Len(chunks)].end - chunks[Len(chunks)].start < step

\* ---- vocabulary of the pipeline claims

ChunkSet == {chunks[n] : n \in 1..Len(chunks)}

Occurrences(seq, x) == Cardinality({n \in 1..Len(seq) : seq[n] = x})

FetchCalls(c, pass) ==
    {j \in DOMAIN fetches : fetches[j].chunk = c /\ fetches[j].pass = pass}

UpsertCalls(c, pass) ==
    {t \in DOMAIN tasks : tasks[t].chunk = c /\ tasks[t].pass = pass}

ActiveFetches == {j \in DOMAIN fetches : FetchActive(fetches[j])}
ActiveTasks == {t \in DOMAIN tasks : TaskActive(tasks[t])}

\* The rows of the records the upstream holds for a range.
RowsOf(c) == MapTransform(FeaturesIn(c.start, c.end))

StoredIds == {r.id : r \in store}
StoredData == {DataOf(r) : r \in store}

FetchThrewIn(c, pass) == \E j \in FetchCalls(c, pass) : fetches[j].st = "thrown"
UpsertThrewIn(c, pass) == \E t \in UpsertCalls(c, pass) : tasks[t].threw
FailedIn(c, pass) == FetchThrewIn(c, pass) \/ UpsertThrewIn(c, pass)

FirstPass == pc \in {"p1_fetch", "p1_await", "p1_final"}
SecondPass == pc \in {"p2_cooldown", "p2_fetch", "p2_upsert"}
\* runPipeline has returned and failedChunks is still the list it returned.
AfterFirstPass == SecondPass \/ (pc = "done" /\ k = 0)

\* C1: at most one fetchRange call and at most one upsertRows call are in
\* flight in every state of a run, first pass and second pass.
C1_OneFetchOneUpsert ==
    /\ Cardinality(ActiveFetches) <= 1
    /\ Cardinality(ActiveTasks) <= 1

\* The second pass is writing a range while the first pass's last background
\* upsert, which failed, has long been settled.
C1_Witness ==
    /\ pc = "p2_upsert"
    /\ \E t \in ActiveTasks : tasks[t].pass = 2
    /\ \E u \in DOMAIN tasks :
          /\ tasks[u].pass = 1
          /\ tasks[u].threw
          /\ tasks[u].chunk = chunks[Len(chunks)]

\* The last fetchRange call made for a range.
LastFetch(c) ==
    LET js == {j \in DOMAIN fetches : fetches[j].chunk = c}
    IN  fetches[CHOOSE j \in js : \A j2 \in js : j2 <= j]

\* A range is done: its last fetch returned and every record of the batch
\* (possibly none) has its row in the store.
RangeDone(c) ==
    /\ \E j \in DOMAIN fetches : fetches[j].chunk = c
    /\ LastFetch(c).st = "returned"
    /\ RowIds(RowsOf(c)) \subseteq StoredIds

\* C2: when the run completes every planned range is either done or in the
\* final failed list, never both and never neither.
C2_DoneXorFailed ==
    pc = "done" =>
        \A c \in ChunkSet :
            (Occurrences(failedChunks, c) > 0) # RangeDone(c)

\* A completed run with a still-failed range of which some rows, not all, are
\* stored, and a range that failed in the first pass and is done.
C2_Witness ==
    /\ pc = "done"
    /\ \E c \in ChunkSet :
          /\ Occurrences(failedChunks, c) = 1
          /\ RowIds(RowsOf(c)) \cap StoredIds # {}
          /\ ~(RowIds(RowsOf(c)) \subseteq StoredIds)
    /\ \E c \in ChunkSet :
          /\ FailedIn(c, 1)
          /\ RangeDone(c)
          /\ Len(RowsOf(c)) > 0

\* What main is suspended on is in flight: a fetchRange call while it awaits
\* one, the upsertRows call it awaits, or a timer.
AwaitedIsPending ==
    /\ pc \in {"plan", "p1_fetch", "p1_await", "p1_final",
               "p2_cooldown", "p2_fetch", "p2_upsert", "done"}
    /\ pc = "p1_fetch" =>
          \E j \in ActiveFetches : fetches[j].pass = 1 /\ fetches[j].chunk = chunks[i]
    /\ pc \in {"p1_await", "p1_final"} =>
          pendingUpsert \in ActiveTasks
    /\ pc = "p2_fetch" =>
          \E j \in ActiveFetches : fetches[j].pass = 2
    /\ pc = "p2_upsert" =>
          \E t \in ActiveTasks : tasks[t].pass = 2

\* C3: the first pass calls fetchRange exactly once for every planned range,
\* in every run: in each state the ranges up to the loop index have one
\* first-pass call each and the others none, the loop index is past the last
\* range once the loop is left, what main awaits is always still pending (so
\* no failure leaves the run stuck before the last range), and every range
\* whose iteration is over and whose fetch returned records has had its one
\* first-pass upsertRows call.
C3_EveryRangeFetchedOnce ==
    /\ \A n \in 1..Len(chunks) :
          Cardinality(FetchCalls(chunks[n], 1)) = IF n <= i THEN 1 ELSE 0
    /\ (pc = "p1_final" \/ SecondPass \/ pc = "done") => i = Len(chunks) + 1
    /\ AwaitedIsPending
    /\ \A n \in 1..Len(chunks) :
          Cardinality(UpsertCalls(chunks[n], 1)) =
              IF /\ n < i
                 /\ \E j \in FetchCalls(chunks[n], 1) :
                        fetches[j].st = "returned" /\ fetches[j].n > 0
              THEN 1 ELSE 0

\* The first pass is over; the first range's fetch failed, the second range's
\* upsert failed, and the third range was fetched and written.
C3_Witness ==
    /\ SecondPass
    /\ Len(chunks) >= 3
    /\ FetchThrewIn(chunks[1], 1)
    /\ UpsertThrewIn(chunks[2], 1)
    /\ \E t \in UpsertCalls(chunks[3], 1) : tasks[t].res > 0

\* C4: a range is in the first pass's failed set at most once, and only if
\* its fetch threw or its upsertRows call threw; when runPipeline has returned
\* no first-pass upsert is still pending and the failed set holds exactly the
\* ranges whose fetch or upsert failed, once each, whole.
C4_FailedSetExact ==
    /\ (FirstPass \/ AfterFirstPass) =>
          /\ \A n \in 1..Len(failedChunks) : failedChunks[n] \in ChunkSet
          /\ \A c \in ChunkSet :
                /\ Occurrences(failedChunks, c) <= 1
                /\ Occurrences(failedChunks, c) = 1 => FailedIn(c, 1)
    /\ AfterFirstPass =>
          /\ \A t \in ActiveTasks : tasks[t].pass # 1
          /\ \A c \in ChunkSet :
                Occurrences(failedChunks, c) = IF FailedIn(c, 1) THEN 1 ELSE 0

\* runPipeline has returned; the last range's upsert failed on its second
\* sub-batch, its first sub-batch is stored, and the range is in the failed set.
C4_Witness ==
    /\ pc = "p2_cooldown"
    /\ k = 1
    /\ Len(chunks) >= 2
    /\ LET c == chunks[Len(chunks)]
       IN  /\ UpsertThrewIn(c, 1)
           /\ Occurrences(failedChunks, c) = 1
           /\ RowIds(RowsOf(c)) \cap StoredIds # {}
           /\ ~(RowIds(RowsOf(c)) \subseteq StoredIds)

\* C5: in the second pass every range of the failed set gets one fetchRange
\* call and at most one upsertRows call, which is given all the rows of the
\* range and is the range the loop is at; no upsert is pending while the loop
\* waits or fetches; a range has at most two fetchRange calls in a run; and
\* when the run completes the ranges retried are exactly those that failed in
\* the first pass, the final failed list holds exactly those that failed
\* again, and a range that succeeded in the second pass has all rows stored.
C5_SecondPassOnce ==
    /\ \A c \in ChunkSet :
          /\ Cardinality(FetchCalls(c, 2)) <= 1
          /\ Cardinality(UpsertCalls(c, 2)) <= 1
          /\ Cardinality(FetchCalls(c, 2)) = 1 => FailedIn(c, 1)
    /\ pc \in {"p2_cooldown", "p2_fetch"} => ActiveTasks = {}
    /\ \A t \in ActiveTasks :
          tasks[t].pass = 2 =>
              /\ pc = "p2_upsert"
              /\ tasks[t].chunk = failedChunks[k]
              /\ tasks[t].rows = RowsOf(tasks[t].chunk)
    /\ \A j \in ActiveFetches :
          fetches[j].pass = 2 => pc = "p2_fetch" /\ fetches[j].chunk = failedChunks[k]
    /\ pc = "done" =>
          \A c \in ChunkSet :
              /\ Cardinality(FetchCalls(c, 2)) = IF FailedIn(c, 1) THEN 1 ELSE 0
              /\ Occurrences(failedChunks, c) = IF FailedIn(c, 2) THEN 1 ELSE 0
              /\ (FailedIn(c, 1) /\ ~FailedIn(c, 2)) =>
                    RowIds(RowsOf(c)) \subseteq StoredIds
              /\ \A t \in UpsertCalls(c, 2) :
                    ~tasks[t].threw => tasks[t].res = Len(RowsOf(c))

\* A completed run in which one failed range recovered in the second pass
\* with rows written and another failed again.
C5_Witness ==
    /\ pc = "done"
    /\ \E c \in ChunkSet :
          /\ FailedIn(c, 1)
          /\ \E t \in UpsertCalls(c, 2) : tasks[t].res > 0
    /\ \E c \in ChunkSet : FailedIn(c, 2) /\ Occurrences(failedChunks, c) = 1

\* C6: when the upstream fails every attempt for one range and succeeds for
\* all the others, and the store accepts every write, the completed run's
\* final failed list is exactly that range, and the store holds the row of
\* every record of every other range (and no row of the failing range).
C6_OneBadRange ==
    pc = "done" =>
        /\ Len(failedChunks) = 1
        /\ failedChunks[1].start = bad
        /\ failedChunks[1] \in ChunkSet
        /\ \A c \in ChunkSet :
              IF c.start = bad THEN RowIds(RowsOf(c)) \cap StoredIds = {}
              ELSE RowIds(RowsOf(c)) \subseteq StoredIds

\* A completed run over three ranges whose middle range is the failing one,
\* with the rows of the ranges before and after it stored.
C6_Witness ==
    /\ pc = "done"
    /\ Len(chunks) = 3
    /\ chunks[2].start = bad
    /\ Len(RowsOf(chunks[2])) > 0
    /\ RowIds(RowsOf(chunks[1])) # {}
    /\ RowIds(RowsOf(chunks[3])) # {}
    /\ RowIds(RowsOf(chunks[1])) \cup RowIds(RowsOf(chunks[3])) = StoredIds

\* C7: the first pass's fetchRange calls are made in strictly ascending
\* range order, its upsertRows calls are made in the order of the fetches of
\* their ranges, and when an upsertRows call exists every earlier one has
\* settled.
C7_AscendingOrder ==
    /\ \A a, b \in DOMAIN fetches :
          (a < b /\ fetches[a].pass = 1 /\ fetches[b].pass = 1) =>
              fetches[a].chunk.start < fetches[b].chunk.start
    /\ \A a, b \in DOMAIN tasks :
          (a < b /\ tasks[a].pass = 1 /\ tasks[b].pass = 1) =>
              /\ tasks[a].chunk.start < tasks[b].chunk.start
              /\ TaskSettled(tasks[a])
              /\ \E fa \in FetchCalls(tasks[a].chunk, 1), fb \in FetchCalls(tasks[b].chunk, 1) :
                    fa < fb

\* Two first-pass upserts with a failed fetch of the range between them, the
\* second one in flight.
C7_Witness ==
    /\ FirstPass
    /\ Len(chunks) >= 3
    /\ UpsertCalls(chunks[1], 1) # {}
    /\ FetchThrewIn(chunks[2], 1)
    /\ \E t \in UpsertCalls(chunks[3], 1) : TaskActive(tasks[t])

\* The iteration (1-based) of the first pass a call's range belongs to.
ChunkIndex(c) == CHOOSE n \in 1..Len(chunks) : chunks[n] = c

\* C8: in the first pass a fetchRange call is made only when every earlier
\* one has completed, and an upsertRows call that has not settled is the one
\* pendingUpsert holds, so that it is awaited before the next one is started;
\* the fetch of the next range does not wait for it (C8_Witness is reached).
C8_PipelineDepthOne ==
    /\ \A a, b \in DOMAIN fetches :
          (a < b /\ fetches[a].pass = 1 /\ fetches[b].pass = 1) =>
              ~FetchActive(fetches[a])
    /\ \A t \in ActiveTasks :
          tasks[t].pass = 1 =>
              /\ pendingUpsert = t
              /\ FirstPass
              /\ \A u \in DOMAIN tasks : u <= t
    /\ \A j \in ActiveFetches, t \in ActiveTasks :
          (fetches[j].pass = 1 /\ tasks[t].pass = 1) =>
              ChunkIndex(tasks[t].chunk) < ChunkIndex(fetches[j].chunk)

\* Range i's upsert and range i+1's fetch are both in flight.
C8_Witness ==
    \E j \in ActiveFetches, t \in ActiveTasks :
        /\ fetches[j].pass = 1
        /\ tasks[t].pass = 1
        /\ fetches[j].st = "http"
        /\ tasks[t].st = "write"
        /\ ChunkIndex(fetches[j].chunk) = ChunkIndex(tasks[t].chunk) + 1

\* C10: a fetchWithRetry call issues one request per attempt and at most
\* MAX_RETRIES of them; a call that threw because its attempts failed made
\* exactly MAX_RETRIES requests, all failed; a call that returned made k
\* requests of which the first k - 1 failed, and returned the body of the
\* k-th; a completed call issues no further request.
C10_RetryCount ==
    /\ \A j \in DOMAIN fetches :
          /\ fetches[j].https <= MAX_RETRIES
          /\ FetchActive(fetches[j]) =>
                /\ fetches[j].https = fetches[j].attempt
                /\ fetches[j].fails =
                      IF FetchPending(fetches[j]) THEN fetches[j].attempt - 1
                      ELSE fetches[j].attempt
          /\ ~FetchActive(fetches[j]) => fetches[j].https = 0
    /\ (fres.st = "thrown" /\ fres.cause \in FailKinds) =>
          /\ fres.https = MAX_RETRIES
          /\ fres.fails = MAX_RETRIES
    /\ fres.st = "returned" =>
          /\ fres.https \in 1..MAX_RETRIES
          /\ fres.fails = fres.https - 1
          /\ fres.body \in {FeatureBody(fres.chunk), AbsentBody}
          /\ fres.n = Len(FeaturesIn(fres.chunk.start, fres.chunk.end))

\* The last completed call returned on its MAX_RETRIES-th attempt, after an
\* earlier call had thrown.
C10_Witness ==
    /\ fres.st = "returned"
    /\ fres.https = MAX_RETRIES
    /\ Len(fres.body.features) > 0
    /\ \E j \in DOMAIN fetches : fetches[j].st = "thrown"

\* C11: after failed HTTP attempt a that is not the last one the call waits
\* min(3000 * 3^(a-1), 90000) ms, that is 3000, 9000, 27000, 81000 for
\* a = 1..4; the waits of one call never decrease and never exceed 90000;
\* no call waits after its last failed attempt, it throws at once.
BackoffTable == <<3000, 9000, 27000, 81000>>

C11_BackoffWait ==
    /\ \A j \in DOMAIN fetches :
          LET call == fetches[j]
          IN  /\ call.st = "sleep" =>
                    /\ call.attempt \in 1..(MAX_RETRIES - 1)
                    /\ call.fails = call.attempt
                    /\ call.wait = BackoffTable[call.attempt]
                    /\ call.wait <= 90000
                    /\ call.prev <= call.wait
                    /\ call.attempt > 1 => call.prev = BackoffTable[call.attempt - 1]
              /\ FetchPending(call) => call.wait = 0
    /\ (fres.st = "thrown" /\ fres.cause # "payload") =>
          /\ fres.fails = MAX_RETRIES
          /\ fres.wait = 0
          /\ fres.prev = BackoffTable[MAX_RETRIES - 1]

C11_Witness ==
    \E j \in DOMAIN fetches :
        /\ fetches[j].st = "sleep"
        /\ fetches[j].attempt = MAX_RETRIES - 1
        /\ fetches[j].wait = 81000
        /\ fetches[j].prev = 27000

\* The step in which fetchRange call j completes on a response body that
\* carries an error object.
ErrorPayloadStep(j) ==
    /\ fetches[j].st = "body"
    /\ ~FetchActive(fetches'[j])
    /\ fres'.body.kind = "error"

\* C12: a response that carries an error object makes the fetch of its range
\* fail: in that step nothing is counted as fetched, no upsertRows call is
\* made and the store is not written, the range has no upsertRows call in
\* that pass, and the range is appended to failedChunks in the first pass
\* and to stillFailed (the final failed list once the loop has ended) in the
\* second pass.
C12_ErrorPayloadFails ==
    [][\A j \in DOMAIN fetches :
          ErrorPayloadStep(j) =>
              LET c == fetches[j].chunk
                  pass == fetches[j].pass
              IN  /\ fres'.st = "thrown"
                  /\ fetches'[j].st = "thrown"
                  /\ totalFetched' = totalFetched
                  /\ tasks' = tasks
                  /\ store' = store
                  /\ UpsertCalls(c, pass) = {}
                  /\ IF pass = 1
                     THEN failedChunks' = Append(failedChunks, c)
                     ELSE IF pc' = "done"
                          THEN failedChunks' = Append(stillFailed, c)
                          ELSE /\ stillFailed' = Append(stillFailed, c)
                               /\ failedChunks' = failedChunks]_vars

\* A completed run whose last event was an error object, with features in
\* the same body, for a range retried in the second pass: the range is last
\* in the final failed list and none of its rows is stored.
C12_Witness ==
    /\ pc = "done"
    /\ fres.pass = 2
    /\ fres.st = "thrown"
    /\ fres.cause = "payload"
    /\ fres.https = 1
    /\ Len(fres.body.features) > 0
    /\ failedChunks[Len(failedChunks)] = fres.chunk
    /\ RowIds(MapTransform(fres.body.features)) \cap StoredIds = {}

\* The range of the fetchRange call that completed last is in a failed list.
LastFetchRecorded ==
    \/ Occurrences(failedChunks, fres.chunk) > 0
    \/ Occurrences(stillFailed, fres.chunk) > 0

\* C13 as stated: every range recorded as fetch-failed has had MAX_RETRIES
\* HTTP attempts in that pass.
C13_Original ==
    (fres.st = "thrown" /\ LastFetchRecorded) => fres.https = MAX_RETRIES

\* C13, amended: a range whose fetch threw is recorded as failed; when the
\* cause is a failed HTTP attempt (timeout, status not ok, transport or
\* decode error) the call has made MAX_RETRIES HTTP attempts, all failed;
\* when the cause is an error object in an ok response the call has made at
\* least one and at most MAX_RETRIES attempts, of which the last one, the one
\* that returned the error object, did not fail.
C13_RetriesExhausted ==
    fres.st = "thrown" =>
        /\ LastFetchRecorded
        /\ fres.cause \in FailKinds =>
              /\ fres.https = MAX_RETRIES
              /\ fres.fails = MAX_RETRIES
        /\ fres.cause \notin FailKinds =>
              /\ fres.cause = "payload"
              /\ fres.https \in 1..MAX_RETRIES
              /\ fres.fails = fres.https - 1

\* A range recorded in the second pass after MAX_RETRIES failed attempts, the
\* last one a timeout.
C13_Witness ==
    /\ pc = "done"
    /\ fres.st = "thrown"
    /\ fres.pass = 2
    /\ fres.cause = "timeout"
    /\ fres.https = MAX_RETRIES
    /\ Occurrences(failedChunks, fres.chunk) = 1

\* The first pass moves on from range chunks[i], fetched without features:
\* at once when the fetch returns and nothing is awaited, or when the awaited
\* previous upsert settles.
EmptyStep1 ==
    /\ i' = i + 1
    /\ \/ /\ pc = "p1_fetch"
          /\ fres' # fres
          /\ fres'.st = "returned"
          /\ NoFeatures(fres'.body)
       \/ /\ pc = "p1_await"
          /\ NoFeatures(data)

\* The second pass moves on from range failedChunks[k], fetched without
\* features.
EmptyStep2 ==
    /\ pc = "p2_fetch"
    /\ fres' # fres
    /\ fres'.st = "returned"
    /\ NoFeatures(fres'.body)

\* C14: a range fetched with an empty or absent feature list is not an error
\* in either pass. In the step that moves on from it no upsertRows call is
\* made, totalFetched is unchanged, totalUpserted changes only by the result
\* of the previous range's awaited upsert, and the range is not appended to
\* failedChunks or stillFailed; in every state such a range has no
\* upsertRows call in that pass, is not in failedChunks when the first pass
\* fetched it so, and is not in stillFailed nor in the final list when the
\* second pass fetched it so.
C14_EmptyNotError ==
    /\ [][/\ EmptyStep1 =>
              /\ Len(tasks') = Len(tasks)
              /\ totalFetched' = totalFetched
              /\ totalUpserted' = totalUpserted
                     + (IF pendingUpsert # 0 THEN tasks'[pendingUpsert].res ELSE 0)
              /\ \A n \in 1..Len(failedChunks') :
                    n > Len(failedChunks) => failedChunks'[n] # chunks[i]
              /\ Occurrences(failedChunks', chunks[i]) = 0
          /\ EmptyStep2 =>
              /\ tasks' = tasks
              /\ totalFetched' = totalFetched
              /\ totalUpserted' = totalUpserted
              /\ stillFailed' = stillFailed
              /\ k' = k + 1
              /\ pc' = "done" => Occurrences(failedChunks', failedChunks[k]) = 0]_vars
    /\ [](\A j \in DOMAIN fetches :
            (fetches[j].st = "returned" /\ fetches[j].n = 0) =>
                LET c == fetches[j].chunk
                IN  /\ UpsertCalls(c, fetches[j].pass) = {}
                    /\ fetches[j].pass = 1 => Occurrences(failedChunks, c) = 0
                    /\ fetches[j].pass = 2 =>
                          /\ Occurrences(stillFailed, c) = 0
                          /\ pc = "done" => Occurrences(failedChunks, c) = 0)

\* A completed run in which a range whose fetch failed in the first pass was
\* answered without a features member in the second pass: the final failed
\* list is empty and the counters are those of the other range.
C14_Witness ==
    /\ pc = "done"
    /\ fres.pass = 2
    /\ fres.st = "returned"
    /\ fres.body.kind = "absent"
    /\ failedChunks = <<>>
    /\ Len(tasks) = 1
    /\ totalFetched = RANGE_STEP
    /\ totalUpserted = RANGE_STEP

\* The store acknowledges the write in flight of upsertRows call t.
WriteAcked(t) ==
    /\ tasks[t].st = "write"
    /\ \/ tasks'[t].st = "write" /\ tasks'[t].off > tasks[t].off
       \/ tasks'[t].st = "resolved" /\ ~tasks'[t].threw

\* C15: upsertRows writes its rows as consecutive sub-batches of at most
\* UPSERT_BATCH rows in input order, every row in exactly one sub-batch: the
\* write in flight starts at a multiple of the sub-batch size, right after
\* the rows written and counted so far, and when it is acknowledged exactly
\* the next at most UPSERT_BATCH rows are added to the store and the next
\* write starts right after them. At most one write is in flight. When the
\* last sub-batch is acknowledged the call returns the number of input rows.
C15_SubBatches ==
    /\ [](/\ Cardinality({t \in DOMAIN tasks : tasks[t].st = "write"}) <= 1
          /\ \A t \in ActiveTasks :
                /\ tasks[t].off % batchSize = 0
                /\ tasks[t].off < Len(tasks[t].rows)
                /\ tasks[t].upserted = tasks[t].off
                /\ RowIds(SubSeq(tasks[t].rows, 1, tasks[t].off)) \subseteq StoredIds)
    /\ [][\A t \in DOMAIN tasks :
            WriteAcked(t) =>
                LET rows == tasks[t].rows
                    from == tasks[t].off + 1
                    to == Min(tasks[t].off + batchSize, Len(rows))
                    written == {rows[n] : n \in from..to}
                IN  /\ to - from + 1 \in 1..batchSize
                    /\ Cardinality(written) = to - from + 1
                    /\ {r.id : r \in written} \cap RowIds(SubSeq(rows, 1, from - 1)) = {}
                    /\ StoredData' =
                          {r \in StoredData : r.id \notin {w.id : w \in written}}
                              \cup written
                    /\ IF to < Len(rows)
                       THEN /\ tasks'[t].st = "write"
                            /\ tasks'[t].off = to
                            /\ tasks'[t].rows = rows
                       ELSE /\ tasks'[t].st = "resolved"
                            /\ tasks'[t].res = Len(rows)]_vars

\* A call with MaxRows rows and sub-batches of two rows has returned MaxRows:
\* the last sub-batch was a single row, and every row is stored.
C15_Witness ==
    /\ batchSize = 2
    /\ Len(tasks) = 1
    /\ tasks[1].st = "resolved"
    /\ ~tasks[1].threw
    /\ tasks[1].res = MaxRows
    /\ Cardinality(store) = MaxRows
    /\ totalUpserted = MaxRows

\* The store answers the write in flight of upsertRows call t with an error
\* and the call throws.
WriteThrew(t) ==
    /\ tasks[t].st = "write"
    /\ tasks'[t].threw

\* C16: a sub-batch is written at most UPSERT_RETRIES times; after failed
\* attempt a that is not the last the call waits a * 10000 ms, after the last
\* one it does not wait: the call fails in that step. The store is not
\* changed by the failure, so the sub-batches written before stay; a settled
\* call never changes again, so its remaining sub-batches are never written:
\* when the call is the only one so far, the store holds exactly the rows
\* before the failed sub-batch. No step removes a row from the store.
C16_UpsertRetries ==
    /\ [](\A t \in ActiveTasks :
            /\ tasks[t].attempt \in 1..UPSERT_RETRIES
            /\ tasks[t].writes = tasks[t].attempt
            /\ tasks[t].st = "write" => tasks[t].wait = 0
            /\ tasks[t].st = "sleep" =>
                  /\ tasks[t].attempt < UPSERT_RETRIES
                  /\ tasks[t].wait = tasks[t].attempt * 10000)
    /\ [][/\ \A t \in DOMAIN tasks :
                /\ WriteThrew(t) =>
                      /\ tasks[t].writes = UPSERT_RETRIES
                      /\ TaskSettled(tasks'[t])
                      /\ tasks'[t].res = 0
                      /\ store' = store
                      /\ RowIds(SubSeq(tasks[t].rows, 1, tasks[t].off)) \subseteq StoredIds'
                      /\ Len(tasks) = 1 =>
                            StoredIds' = RowIds(SubSeq(tasks[t].rows, 1, tasks[t].off))
                /\ (tasks[t].st = "write" /\ tasks'[t].st = "sleep") =>
                      /\ tasks[t].writes < UPSERT_RETRIES
                      /\ store' = store
                /\ TaskSettled(tasks[t]) => tasks'[t] = tasks[t]
          /\ StoredIds \subseteq StoredIds'
          /\ store' # store => \E t \in DOMAIN tasks : WriteAcked(t)]_vars

\* A call with MaxRows rows and sub-batches of two rows failed at its second
\* sub-batch: the first two rows are stored, the other three are not, and
\* the range is in the final failed list.
C16_Witness ==
    /\ pc = "done"
    /\ batchSize = 2
    /\ Len(tasks) = 1
    /\ tasks[1].st = "rejected"
    /\ tasks[1].threw
    /\ Len(RowsOf(chunks[1])) = MaxRows
    /\ StoredIds = RowIds(SubSeq(RowsOf(chunks[1]), 1, 2))
    /\ failedChunks = chunks

\* An upsert request is applied to the store in this step.
StoreWriteStep ==
    /\ now' = now
    /\ lastBatch'.times > 0
    /\ lastBatch' # lastBatch \/ store' # store

\* C17: an upsert replaces the data columns of every row of the batch by the
\* batch's values, nulls included, leaves one row per id and leaves the rows
\* of other ids as they are; and applying a batch that has just been applied
\* leaves the data columns of every row of the table as they are.
C17_UpsertIdempotent ==
    [][/\ StoreWriteStep =>
            LET b == lastBatch'.rows
            IN  /\ \A n \in 1..Len(b) : b[n] \in StoredData'
                /\ \A r \in store' : \A o \in store' : r.id = o.id => r = o
                /\ {r \in store : r.id \notin RowIds(b)}
                       = {r \in store' : r.id \notin RowIds(b)}
       /\ (now' = now /\ lastBatch'.times = 2) => StoredData' = StoredData]_vars

\* A batch of two rows, one with a null address, has been applied twice in a
\* row to a table that held another address for that row; its rows are
\* stored as the batch has them.
C17_Witness ==
    /\ lastBatch.times = 2
    /\ Len(lastBatch.rows) = 2
    /\ lastBatch.rows[1].site_address = None
    /\ lastBatch.rows[2].site_address = Some("B")
    /\ StoredData = {lastBatch.rows[1], lastBatch.rows[2]}
    /\ \A r \in store : r.last_updated < now

\* C18 as stated: every upsert of a row, the first insert of its id and
\* every later overwrite, sets the row's last_updated to the time of the
\* write.
C18_Original ==
    [][StoreWriteStep =>
          \A n \in 1..Len(lastBatch'.rows) :
              \E r \in store' :
                  /\ r.id = lastBatch'.rows[n].id
                  /\ r.last_updated = now]_vars

\* ---- vocabulary of the transformFeature claims

\* The feature has a ring: a geometry with rings whose first ring, the one
\* transformFeature reads, has a point.
SourceHasRing ==
    /\ feat.geometry # None
    /\ feat.geometry[1].rings # None
    /\ feat.geometry[1].rings[1] # <<>>
    /\ Head(feat.geometry[1].rings[1]) # <<>>

SourceRing == Head(feat.geometry[1].rings[1])

\* The sum of component c of the points of a ring.
RECURSIVE Total(_, _)
Total(ring, c) == IF ring = <<>> THEN 0 ELSE Head(ring)[c] + Total(Tail(ring), c)

\* The quotient q is the mean of component c of the ring's points.
IsMean(q, ring, c) ==
    /\ q.den # 0
    /\ q.num * Len(ring) = Total(ring, c) * q.den

\* C19: for a feature with a ring of N >= 1 points the row's centroid_lng is
\* the mean of the points' first components, its centroid_lat the mean of
\* their second components, and its polygon_coords has N pairs, the k-th the
\* k-th point with its components swapped.
C19_CentroidAndPolygon ==
    (row # None /\ SourceHasRing) =>
        LET r == row[1]
            N == Len(SourceRing)
        IN  /\ N >= 1
            /\ r.centroid_lng # None
            /\ IsMean(r.centroid_lng[1], SourceRing, 1)
            /\ r.centroid_lat # None
            /\ IsMean(r.centroid_lat[1], SourceRing, 2)
            /\ r.polygon_coords # None
            /\ Len(r.polygon_coords[1]) = N
            /\ \A n \in 1..N :
                  /\ r.polygon_coords[1][n][1] = SourceRing[n][2]
                  /\ r.polygon_coords[1][n][2] = SourceRing[n][1]

\* The row of a feature with a ring of three points whose means are not
\* whole numbers, 1/3 and 2/3, and with a second ring.
C19_Witness ==
    /\ row # None
    /\ SourceHasRing
    /\ Len(SourceRing) = 3
    /\ Len(feat.geometry[1].rings[1]) = 2
    /\ Total(SourceRing, 1) = 1
    /\ Total(SourceRing, 2) = 2
    /\ row[1].centroid_lng = Some(Quot(1, 3))
    /\ row[1].centroid_lat = Some(Quot(2, 3))

\* C20: in every row polygon_coords is not null exactly when the feature has
\* a ring with a point, and centroid_lat and centroid_lng are both not null
\* exactly when polygon_coords is not null.
C20_GeometryPresence ==
    row # None =>
        /\ row[1].polygon_coords # None <=> SourceHasRing
        /\ (row[1].centroid_lat # None /\ row[1].centroid_lng # None)
              <=> row[1].polygon_coords # None
        /\ row[1].centroid_lat = None <=> row[1].centroid_lng = None

\* The row of a feature whose geometry has rings, the first of them without
\* a point: polygon_coords and both centroid columns are null.
C20_Witness ==
    /\ row # None
    /\ feat.geometry # None
    /\ feat.geometry[1].rings # None
    /\ Len(feat.geometry[1].rings[1]) >= 1
    /\ feat.geometry[1].rings[1][1] = <<>>
    /\ row[1].polygon_coords = None
    /\ row[1].centroid_lat = None
    /\ row[1].centroid_lng = None

\* The output columns that take a text or numeric attribute through
\* "|| null", with the attribute each one reads.
SourceOf ==
    [site_address |-> "SITEADDRESS", owner_name1 |-> "OWNERNME1",
     owner_name2 |-> "OWNERNME2", parcel_id |-> "PARCELID",
     property_type |-> "CLASSDSCRP", property_desc |-> "PRPRTYDSCRP",
     year_built |-> "RESYRBLT", living_area |-> "RESFLRAREA",
     lot_dims |-> "ASS_DIMS", land_value |-> "LNDVALUE",
     assessed_value |-> "CNTASSDVAL", taxable_value |-> "CNTTXBLVAL",
     tax_bill_id |-> "TAXBILLID", block |-> "BLOCK", lot |-> "LOT"]

\* C21 as stated: the row of a feature without geometry has centroid_lat,
\* centroid_lng and polygon_coords null, and every other column carries the
\* value of its attribute, null exactly when the attribute is missing or
\* null (lot_sqft carries the attribute's value as text).
C21_Original ==
    (row # None /\ feat.geometry = None) =>
        LET r == row[1]
            a == feat.attributes
        IN  /\ r.centroid_lat = None
            /\ r.centroid_lng = None
            /\ r.polygon_coords = None
            /\ r.id = a.OBJECTID
            /\ \A c \in DOMAIN SourceOf : r[c] = a[SourceOf[c]]
            /\ r.lot_sqft = None <=> a.ASS_SQFT = None
            /\ a.ASS_SQFT # None => r.lot_sqft = Some(ToString(a.ASS_SQFT[1]))

\* The upstream records whose identifier lies in [START_ID, MAX_ID).
UpstreamInRun == {x \in upstream : minId <= x /\ x < maxId}

\* C22: when a run completes with an empty final failed list the store holds
\* exactly one row for every upstream record with an identifier in
\* [START_ID, MAX_ID), the row transformFeature makes of it, and no other
\* row; and in every state every stored row has its key in that interval.
C22_OneRowPerRecord ==
    /\ \A r \in store : minId <= r.id /\ r.id < maxId
    /\ \A r \in store : \A o \in store : r.id = o.id => r = o
    /\ (pc = "done" /\ failedChunks = <<>>) =>
          /\ StoredIds = UpstreamInRun
          /\ StoredData = {transformFeature(FeatureOf(x)) : x \in UpstreamInRun}

\* A resumed run (START_ID > DEFAULT_MIN_ID) over a sparse upstream has
\* completed after a second pass with nothing left failed; it stored three
\* rows.
C22_Witness ==
    /\ pc = "done"
    /\ failedChunks = <<>>
    /\ k > 1
    /\ minId = 1
    /\ StoredIds = {1, 4, 5}

\* The exit code of the process: 1 after process.exit(1) at the credentials
\* check ("exit1") or in main().catch ("fatal"), 0 once main has printed the
\* summary and returned, -1 while it runs.
ExitCode ==
    IF pc \in {"exit1", "fatal"} THEN 1
    ELSE IF pc = "done" THEN 0
    ELSE -1

\* C23: no failure of a fetch or an upsert makes the process exit with code
\* 1: with the credentials set the exit code is never 1, what main awaits is
\* always in flight until the summary, and the run that reaches the summary
\* exits 0 whatever the final failed list holds; the exit code is 1 only
\* when a credential is missing, and then no fetchRange and no upsertRows
\* call has been made and the store is untouched.
C23_ExitCodes ==
    /\ creds => (ExitCode # 1 /\ AwaitedIsPending)
    /\ pc = "done" => ExitCode = 0
    /\ ExitCode = 1 =>
          /\ ~creds
          /\ pc = "exit1"
          /\ chunks = <<>>
          /\ fetches = <<>>
          /\ tasks = <<>>
          /\ store = {}
    /\ ~creds => ExitCode = 1

\* The run has printed its summary with every planned range, three of them,
\* in the final failed list, the last one for an upsert that failed in the
\* second pass: exit code 0.
C23_Witness ==
    /\ ExitCode = 0
    /\ Len(chunks) = 3
    /\ failedChunks = chunks
    /\ \E t \in DOMAIN tasks : tasks[t].pass = 2 /\ tasks[t].threw
                                   /\ tasks[t].chunk = chunks[3]

\* C24: when two concurrent runs over overlapping ranges are both over,
\* neither with a failed range left, the store holds the data a single run
\* from the lower start identifier leaves: exactly the rows of the upstream
\* records from that identifier up to MAX_ID, whatever the interleaving of
\* the runs' sub-batch writes.
C24_ConcurrentRuns ==
    (Len(runs) = 2 /\ \A r \in DOMAIN runs : runs[r].pass = 3 /\ runs[r].failed = <<>>) =>
        /\ StoredData = {transformFeature(FeatureOf(x)) : x \in UpstreamInRun}
        /\ \A r \in store : \A o \in store : r.id = o.id => r = o

\* Two runs whose ranges overlap without being the same (starts 1 and 2)
\* are over, each after a second pass that retried failed ranges and left
\* none, and five rows are stored.
C24_Witness ==
    /\ Len(runs) = 2
    /\ \A r \in DOMAIN runs :
          runs[r].pass = 3 /\ runs[r].failed = <<>> /\ runs[r].retrying > 0
    /\ runs[1].chunks[1].start = 1
    /\ runs[2].chunks[1].start = 2
    /\ Cardinality(store) = 5

CredentialsUnset ==
    \/ Unset(DOCUSIGN_CONFIG.integrationKey)
    \/ Unset(DOCUSIGN_CONFIG.userId)
    \/ Unset(DOCUSIGN_CONFIG.accountId)

FieldMissing(body) ==
    \/ Unset(body.signerEmail)
    \/ Unset(body.signerName)
    \/ Unset(body.propertyAddress)

\* C25: create-envelope answers 503 when the integration key, the user id
\* or the account id is unset, otherwise 400 when signerEmail, signerName or
\* propertyAddress is missing, otherwise 503 when the template id is unset;
\* the request so answered has made no token exchange and no envelope call,
\* and no request is in flight with the credentials or the template unset or
\* a required field missing.
C25_EnvelopePreconditions ==
    /\ res.status # 0 =>
          /\ CredentialsUnset => res.status = 503
          /\ ~CredentialsUnset /\ FieldMissing(res.body) => res.status = 400
          /\ ~CredentialsUnset /\ ~FieldMissing(res.body)
                /\ Unset(DOCUSIGN_CONFIG.templateId) => res.status = 503
          /\ (CredentialsUnset \/ FieldMissing(res.body)
                \/ Unset(DOCUSIGN_CONFIG.templateId)) =>
                   /\ res.exchanges = 0
                   /\ res.envelopes = 0
                   /\ res.views = 0
                   /\ res.patch = "none"
    /\ \A r \in InFlight :
          /\ ~CredentialsUnset
          /\ ~FieldMissing(reqs[r].body)
          /\ ~Unset(DOCUSIGN_CONFIG.templateId)
    /\ (CredentialsUnset \/ Unset(DOCUSIGN_CONFIG.templateId)) => cachedToken = None

\* With everything configured and a token in the cache, a request whose
\* signerEmail is the empty string has been answered 400 while another
\* request is in flight.
C25_Witness ==
    /\ res.status = 400
    /\ res.body.signerEmail = Some("")
    /\ res.body.signerName = Some("x")
    /\ res.body.propertyAddress = Some("x")
    /\ cachedToken # None
    /\ InFlight # {}

\* A token is cached and the current time is more than five minutes before
\* its recorded expiry.
TokenCurrent == cachedToken # None /\ tokenExpiresAt - clock > TOKEN_BUFFER_MS

\* Client c's request calls getAccessToken in this step and is suspended
\* afterwards; every request posted to a configured server with a complete
\* body calls it.
TokenCall(c) == reqs[c].pc = "idle" /\ reqs'[c].pc # "idle"

\* getAccessToken has thrown before any exchange: the request posted is
\* answered in the step that posts it.
ThrewBeforeExchange == reqs' = reqs /\ clock' = clock /\ res' # res

\* C30: getAccessToken returns the cached token without an exchange only
\* when a token is cached and the current time is more than five minutes
\* before its recorded expiry; otherwise it sends the exchange or, the
\* private key missing or unusable, throws; and cachedToken and
\* tokenExpiresAt change only in the step in which an exchange succeeds,
\* to the token returned and an expiry after the current time.
C30_TokenCache ==
    [][ /\ \A c \in Clients :
              TokenCall(c) =>
                 IF TokenCurrent
                 THEN /\ reqs'[c].pc = "envelope"
                      /\ reqs'[c].exchanges = 0
                      /\ reqs'[c].accessToken = cachedToken
                 ELSE /\ reqs'[c].pc = "token"
                      /\ reqs'[c].exchanges = 1
                      /\ DOCUSIGN_CONFIG.privateKey \in {"env", "file"}
        /\ ThrewBeforeExchange =>
              /\ ~TokenCurrent
              /\ DOCUSIGN_CONFIG.privateKey \in {"missing", "malformed"}
              /\ res'.status \in {403, 500}
              /\ res'.exchanges = 0
              /\ UNCHANGED <<cachedToken, tokenExpiresAt>>
        /\ <<cachedToken, tokenExpiresAt>>' # <<cachedToken, tokenExpiresAt>> =>
              \E c \in Clients :
                 /\ reqs[c].pc = "token_json"
                 /\ reqs'[c].pc = "envelope"
                 /\ reqs'[c].accessToken = cachedToken'
                 /\ tokenExpiresAt' > clock
        /\ \A c \in Clients :
              (reqs[c].pc \in TokenAwaits /\ reqs'[c].pc = "idle") =>
                 /\ UNCHANGED <<cachedToken, tokenExpiresAt>>
                 /\ res'.status \in {403, 500}
      ]_vars

\* One request's exchange has failed while the token of another request's
\* exchange, made at time 0, was cached, and a third request, one
\* millisecond before the five minutes begin, has got that token from the
\* cache.
C30_Witness ==
    /\ clock = FreshFor - 1
    /\ tokenExpiresAt = DEFAULT_EXPIRES_IN * 1000
    /\ res.status = 403
    /\ res.exchanges = 1
    /\ \E c \in Clients :
          /\ reqs[c].pc = "envelope"
          /\ reqs[c].exchanges = 0
          /\ reqs[c].accessToken = cachedToken

\* seq, a sequence of ranges, is in ascending order of range start.
AscendingStarts(seq) ==
    \A a, b \in DOMAIN seq : a < b => seq[a].start < seq[b].start

\* The second pass begins: main is at the cool-down before the first retry.
SecondPassBegins == pc = "p2_cooldown" /\ k = 1

\* C26, as claimed: when the second pass begins, failedChunks is in
\* ascending order of range start.
C26_Original == SecondPassBegins => AscendingStarts(failedChunks)

\* The start identifier printed in the re-run hint: failedChunks[0].start.
RerunHint == failedChunks[1].start

\* The summary has been printed with a final failed list that is not empty.
SummaryWithFailures == pc = "done" /\ failedChunks # <<>>

\* C27, as claimed: the start identifier printed in the re-run hint is the
\* lowest start among the still-failed ranges, so that the ranges a run
\* resumed from it plans cover every still-failed range.
C27_Original ==
    SummaryWithFailures =>
        /\ \A n \in DOMAIN failedChunks : RerunHint <= failedChunks[n].start
        /\ \A n \in DOMAIN failedChunks :
              \A x \in failedChunks[n].start..(failedChunks[n].end - 1) :
                 \E m \in DOMAIN RunPlan(RerunHint) :
                    RunPlan(RerunHint)[m].start <= x /\ x < RunPlan(RerunHint)[m].end

\* C28, as claimed: in every state total upserted is at most total fetched,
\* total fetched counts each upstream record of the run at most once, and a
\* run that completes with an empty final failed list has total upserted
\* equal to total fetched.
C28_Original ==
    /\ totalUpserted <= totalFetched
    /\ totalFetched <= Cardinality(UpstreamInRun)
    /\ (pc = "done" /\ failedChunks = <<>>) => totalUpserted = totalFetched

\* C29: under the assumption that every HTTP call, store write and timer in
\* flight completes in finite time (SpecLive), a run reaches the final
\* summary; each planned range gets at most one fetchRange call per pass,
\* hence at most two, each of at most MAX_RETRIES HTTP requests, and at most
\* one upsertRows call per pass, each writing a sub-batch at most
\* UPSERT_RETRIES times; once the summary is printed nothing is in flight.
C29_ReachesSummary ==
    /\ <>(pc = "done")
    /\ [](\A n \in DOMAIN chunks :
             /\ Cardinality(FetchCalls(chunks[n], 1)) <= 1
             /\ Cardinality(FetchCalls(chunks[n], 2)) <= 1
             /\ Cardinality(UpsertCalls(chunks[n], 1)) <= 1
             /\ Cardinality(UpsertCalls(chunks[n], 2)) <= 1)
    /\ [](/\ \A j \in DOMAIN fetches :
                /\ fetches[j].pass \in {1, 2}
                /\ \E n \in DOMAIN chunks : fetches[j].chunk = chunks[n]
                /\ fetches[j].https <= MAX_RETRIES
                /\ fetches[j].fails <= fetches[j].https
                /\ FetchActive(fetches[j]) => fetches[j].https = fetches[j].attempt
          /\ fres.https <= MAX_RETRIES
          /\ \A t \in DOMAIN tasks :
                /\ tasks[t].pass \in {1, 2}
                /\ \E n \in DOMAIN chunks : tasks[t].chunk = chunks[n]
                /\ tasks[t].writes <= UPSERT_RETRIES
                /\ TaskActive(tasks[t]) => tasks[t].writes = tasks[t].attempt)
    /\ [](pc = "done" => ActiveFetches = {} /\ ActiveTasks = {})

\* The summary is printed after a run of two ranges, the first of more than
\* one sub-batch, that spent all it may on each: two fetchRange calls per
\* range, the last one returning at its last request, and two upsertRows
\* calls per range that all failed at their last write, the first-pass one
\* of the first range while the second range was fetched, so that both
\* ranges are in the final failed list.
C29_Witness ==
    /\ pc = "done"
    /\ Len(chunks) = 2
    /\ Len(RowsOf(chunks[1])) > UPSERT_BATCH
    /\ \A n \in DOMAIN chunks :
          /\ Cardinality(FetchCalls(chunks[n], 1) \cup FetchCalls(chunks[n], 2)) = 2
          /\ Cardinality(UpsertCalls(chunks[n], 1) \cup UpsertCalls(chunks[n], 2)) = 2
    /\ \A t \in DOMAIN tasks : tasks[t].threw
    /\ fres.pass = 2
    /\ fres.https = MAX_RETRIES
    /\ Len(failedChunks) = 2

\* The Location a callback with req.query.event e must redirect to.
SigningLocation(e) ==
    IF e = None \/ e = Some("") THEN "/#signing-unknown" ELSE "/#signing-" \o e[1]

\* The update of the submission row made for an answered or suspended
\* request has failed: answered not ok, or rejected.
UpdateFailed(r) == r.patch \in {"notok", "rejected"}

\* C31: a failure of the update of the submission row never changes the
\* HTTP outcome of the signing flow. In create-envelope the update, however
\* it settles, is followed by the createRecipientView call and answers
\* nothing itself, and the request is then answered as that call decides,
\* with the url when it returns. Every callback is answered with a redirect
\* to /#signing-<event>, event defaulting to unknown, at once when there is
\* no submissionId or no Supabase configuration, else when the update has
\* settled, however it did.
C31_UpdateFailureHarmless ==
    /\ [](/\ res.route = "callback" =>
                /\ res.status = 302
                /\ res.location = Some(SigningLocation(res.event))
                /\ ~res.url
                /\ res.patch = "none" <=>
                      (Unset(res.body.submissionId) \/ ~SUPABASE_HEADERS)
          /\ (res.route = "create-envelope" /\ res.status # 0) =>
                /\ res.location = None
                /\ res.url <=> res.status = 200
                /\ res.url => res.envelopes = 1 /\ res.views = 1
                /\ res.patch # "sent"
                /\ res.views = 1 =>
                      (res.patch = "none" <=>
                          (Unset(res.body.submissionId) \/ ~SUPABASE_HEADERS)))
    /\ [][\A c \in Clients :
            /\ (reqs[c].pc = "patch" /\ reqs'[c] # reqs[c]) =>
                  /\ reqs'[c].pc = "view"
                  /\ reqs'[c].views = 1
                  /\ reqs'[c].patch \in {"ok", "notok", "rejected"}
                  /\ res' = res
            /\ (reqs[c].pc = "view" /\ reqs'[c] # reqs[c]) =>
                  /\ reqs'[c].pc = "idle"
                  /\ res'.patch = reqs[c].patch
                  /\ res'.status \in {200, 403, 500}
            /\ (reqs[c].pc = "cb_patch" /\ reqs'[c] # reqs[c]) =>
                  /\ reqs'[c].pc = "idle"
                  /\ res'.route = "callback"
                  /\ res'.status = 302
                  /\ res'.patch \in {"ok", "notok", "rejected"}
                  /\ res'.event = reqs[c].event
      ]_vars

\* A create-envelope request has been answered with the url although the
\* update of its submission row was rejected, while a callback without an
\* event is waiting for its update to settle.
C31_Witness ==
    /\ res.route = "create-envelope"
    /\ res.status = 200
    /\ res.url
    /\ res.patch = "rejected"
    /\ \E c \in Clients :
          /\ reqs[c].route = "callback"
          /\ reqs[c].pc = "cb_patch"
          /\ reqs[c].event = None

====
